---- MODULE Spec2Model ----
(***************************************************************************)
(* Model of the hisfs virtual file system: the Inode table and its         *)
(* lifecycle (fs/orm.py, hisfs/orm.py, fs/wsgi.py), the content store      *)
(* (filedb) as seen through add/delete/size, the per-customer quota        *)
(* (CustomerQuota, hisfs/wsgi.py) and the permission evaluation            *)
(* (readable_by & co., hisfs/policy.py).                                   *)
(*                                                                         *)
(* The repository holds two revisions of the Inode model side by side:     *)
(* src/fs/orm.py and src/hisfs/orm.py.  Where they differ both are         *)
(* modelled, the definitions of the first prefixed Fs, of the second       *)
(* Hisfs.                                                                  *)
(***************************************************************************)
EXTENDS Integers, Sequences, FiniteSets, TLC

\* ------------------------------------------------------------------ bounds

\* Rows the Inode table may receive on top of the provisioned roots.
MaxInodes == 2
\* Blobs the content store hands out in one behaviour.
MaxBlobs == 2
\* Longest path (in components) a request names.
MaxDepth == 2

\* SQL NULL of a nullable integer column (ids start at 1).
NULL == 0

\* ------------------------------------------------------------- identities

\* his.orm.Account rows: two ordinary accounts of different customers, a
\* second account of the first customer, and a root account.
Accounts == {"u1", "u2", "v1", "r"}
Customers == {"c1", "c2", "c0"}

\* Account.customer
CustomerOf(a) ==
    CASE a = "u1" -> "c1"
      [] a = "v1" -> "c1"
      [] a = "u2" -> "c2"
      [] OTHER -> "c0"

\* Account.root
IsRootAccount(a) == a = "r"

\* The accounts whose requests the lifecycle specification plays.
Users == {"u1"}

Names == {"a", "b"}

\* Byte counts of the request bodies (len(data)): of the File interface, and
\* of the path interface.
Sizes == {2, 9}
FsSizes == {6}

\* Request paths, already split into components ('' and '/' are << >>).
Paths == UNION {[1..n -> Names] : n \in 0..MaxDepth}

\* ------------------------------------------------------------------ state

VARIABLES
    inodes,     \* the Inode table: id -> row, for the rows that exist
    nextId,     \* the table's AUTO_INCREMENT counter
    store,      \* filedb: blob id -> size, for the blobs that exist
    nextBlob,   \* the next blob id filedb hands out
    quotas,     \* the CustomerQuota table: customer -> quota, NULL if no row
    files,      \* the File table of hisfs/wsgi.py: id -> row
    nextFile,   \* its AUTO_INCREMENT counter
    last,       \* the last request and its outcome
    asked,      \* the principal of the last permission question
    inflight    \* the requests the workers are serving: worker -> position

vars == <<inodes, nextId, store, nextBlob, quotas, files, nextFile, last, asked,
          inflight>>

\* A row as the code builds it (fs/orm.py:54-59, hisfs/orm.py:60-66).
Row(parent, name, owner, group, mode, file) ==
    [parent |-> parent, name |-> name, owner |-> owner, group |-> group,
     mode |-> mode, file |-> file]

\* The table without the rows in gone (DELETE).
Without(tab, gone) == [i \in DOMAIN tab \ gone |-> tab[i]]

\* The table with row r under id i (INSERT / UPDATE).
With(tab, i, r) == [j \in DOMAIN tab \cup {i} |-> IF j = i THEN r ELSE tab[j]]

\* Inode.isdir / Inode.isfile
IsDir(tab, i) == tab[i].file = NULL
IsFile(tab, i) == ~IsDir(tab, i)

\* Inode.root
IsRoot(tab, i) == tab[i].parent = NULL

\* select().where(parent == self)
ChildrenOf(tab, i) == {c \in DOMAIN tab : tab[c].parent = i}

\* The smallest element: the row a query without ORDER BY yields first.
Least(S) == CHOOSE x \in S : \A y \in S : x <= y

\* The rows of a result set in the order the table yields them (by id).
RECURSIVE InOrder(_)
InOrder(S) == IF S = {} THEN << >> ELSE <<Least(S)>> \o InOrder(S \ {Least(S)})

\* The outcome record every request leaves behind: the operation, the
\* exception it raised ("ok": none), the customer it ran for, the row it was
\* about, the flag of the request (recursive, rename), the rows it deleted in
\* order, the bytes it sent.
Outcome(op, err, customer, target, rec, removed, size) ==
    [op |-> op, err |-> err, customer |-> customer, target |-> target,
     rec |-> rec, removed |-> removed, size |-> size, listed |-> << >>,
     path |-> << >>, carried |-> << >>, batch |-> << >>]

\* The outcome of a request that answers with a listing: listed are the rows
\* whose entries the answer holds.
Listing(op, err, customer, target, content) ==
    [Outcome(op, err, customer, target, FALSE, << >>, 0) EXCEPT !.listed = content]

NoOutcome == Outcome("none", "ok", "c0", NULL, FALSE, << >>, 0)

\* The principal a permission is asked for: the account and the group.
Principal(account, group) == [account |-> account, group |-> group]

NoOne == Principal("none", "none")

\* No worker is serving a request.
NoneInFlight == << >>

\* -------------------------------------------------------- content store

\* filedb add(data): a fresh blob of len(data) bytes.
StoreAdd(st, size) == With(st, nextBlob, size)

\* filedb delete(id)
StoreDelete(st, b) == Without(st, {b})

\* filedb size(id); a missing blob has no bytes to count
SizeOf(st, b) == IF b \in DOMAIN st THEN st[b] ELSE 0

\* ------------------------------------------------- path resolution (fs)

\* Inode.root_for(owner, group): the directory rows without parent of the scope
RootFor(tab, owner, group) ==
    {i \in DOMAIN tab : /\ tab[i].file = NULL
                        /\ tab[i].parent = NULL
                        /\ tab[i].owner = owner
                        /\ tab[i].group = group}

\* Inode.getrel(name, parent, owner, group), parent a row
GetRel(tab, name, parent, owner, group) ==
    {i \in DOMAIN tab : /\ tab[i].name = name
                        /\ tab[i].parent = parent
                        /\ tab[i].owner = owner
                        /\ tab[i].group = group}

\* The walk without the test on files: a lookup that descends into whatever
\* row bears the name.
RECURSIVE WalkThroughFiles(_, _, _, _, _, _)
WalkThroughFiles(tab, parent, rest, owner, group, acc) ==
    IF rest = << >> THEN [err |-> "ok", nodes |-> acc]
    ELSE LET hits == GetRel(tab, Head(rest), parent, owner, group) IN
         IF hits = {} THEN [err |-> "NoSuchNode", nodes |-> acc]
         ELSE WalkThroughFiles(tab, Least(hits), Tail(rest), owner, group,
                               Append(acc, Least(hits)))

\* The loop of Inode._node_path: rest are the components still to walk, acc
\* the rows found so far.
RECURSIVE Walk(_, _, _, _, _, _)
Walk(tab, parent, rest, owner, group, acc) ==
    IF rest = << >> THEN [err |-> "ok", nodes |-> acc]
    ELSE LET hits == GetRel(tab, Head(rest), parent, owner, group) IN
         IF hits = {} THEN [err |-> "NoSuchNode", nodes |-> acc]
         ELSE LET node == Least(hits) IN
              IF IsFile(tab, node) /\ Tail(rest) # << >>
              THEN [err |-> "NotADirectory", nodes |-> acc]
              ELSE Walk(tab, node, Tail(rest), owner, group, Append(acc, node))

\* Inode._node_path: the rows from the scope's root to the target.  A scope
\* without root row makes root_for's get raise DoesNotExist.
NodePath(tab, path, owner, group) ==
    LET roots == RootFor(tab, owner, group) IN
    IF roots = {} THEN [err |-> "DoesNotExist", nodes |-> << >>]
    ELSE Walk(tab, Least(roots), path, owner, group, <<Least(roots)>>)

\* The lookup of the handlers: the target row of the path, NULL on error.
ByPath(tab, path, owner, group) ==
    LET np == NodePath(tab, path, owner, group) IN
    [err |-> np.err,
     node |-> IF np.err = "ok" THEN np.nodes[Len(np.nodes)] ELSE NULL]

\* os.path.dirname / basename on a split path
DirName(path) == SubSeq(path, 1, Len(path) - 1)
BaseName(path) == path[Len(path)]

\* ------------------------------------------------------ removal (fs/orm.py)

\* What a removal carries along: the table, the store, the ids of the rows
\* deleted so far in order, and the exception that ended it ("ok": none).
RmState(tab, st, removed, err) ==
    [tab |-> tab, st |-> st, removed |-> removed, err |-> err]

\* A faulty unlink: the row is deleted without looking for children.
FsUnlinkUnchecked(s, i, delOk) ==
    IF s.tab[i].file # NULL /\ ~delOk
    THEN RmState(s.tab, s.st, s.removed, "FileError")
    ELSE RmState(Without(s.tab, {i}),
                 IF s.tab[i].file # NULL THEN StoreDelete(s.st, s.tab[i].file) ELSE s.st,
                 Append(s.removed, i), "ok")

\* Inode.unlink of fs/orm.py.  delOk: filedb answers the delete.
FsUnlink(s, i, delOk) ==
    IF ChildrenOf(s.tab, i) # {} THEN RmState(s.tab, s.st, s.removed, "DirectoryNotEmpty")
    ELSE IF s.tab[i].file # NULL /\ ~delOk
         THEN RmState(s.tab, s.st, s.removed, "FileError")
         ELSE RmState(Without(s.tab, {i}),
                      IF s.tab[i].file # NULL THEN StoreDelete(s.st, s.tab[i].file) ELSE s.st,
                      Append(s.removed, i), "ok")

\* Inode.remove of fs/orm.py; FsRemoveAll is its loop over the children.
RECURSIVE FsRemove(_, _, _, _), FsRemoveAll(_, _, _)
FsRemove(s, i, recursive, delOk) ==
    LET kids == IF recursive
                THEN FsRemoveAll(s, InOrder(ChildrenOf(s.tab, i)), delOk)
                ELSE s
    IN IF kids.err # "ok" THEN kids ELSE FsUnlink(kids, i, delOk)
FsRemoveAll(s, todo, delOk) ==
    IF todo = << >> \/ s.err # "ok" THEN s
    ELSE FsRemoveAll(FsRemove(s, Head(todo), TRUE, delOk), Tail(todo), delOk)

\* --------------------------------------------------- removal (hisfs/orm.py)

\* Inode.unlink of hisfs/orm.py: the deletion sits in the except branch and
\* the raise follows the try statement, so it is reached on every path.
HisfsUnlink(s, i, delOk) ==
    IF ChildrenOf(s.tab, i) # {} THEN RmState(s.tab, s.st, s.removed, "DirectoryNotEmpty")
    ELSE IF s.tab[i].file # NULL /\ ~delOk
         THEN RmState(s.tab, s.st, s.removed, "FileError")
         ELSE RmState(Without(s.tab, {i}),
                      IF s.tab[i].file # NULL THEN StoreDelete(s.st, s.tab[i].file) ELSE s.st,
                      Append(s.removed, i), "DirectoryNotEmpty")

\* Inode.remove of hisfs/orm.py; HisfsRemoveAll is its loop over the children.
RECURSIVE HisfsRemove(_, _, _, _), HisfsRemoveAll(_, _, _)
HisfsRemove(s, i, recursive, delOk) ==
    LET kids == IF recursive
                THEN HisfsRemoveAll(s, InOrder(ChildrenOf(s.tab, i)), delOk)
                ELSE s
    IN IF kids.err # "ok" THEN kids ELSE HisfsUnlink(kids, i, delOk)
HisfsRemoveAll(s, todo, delOk) ==
    IF todo = << >> \/ s.err # "ok" THEN s
    ELSE HisfsRemoveAll(HisfsRemove(s, Head(todo), TRUE, delOk), Tail(todo), delOk)

\* ------------------------------------------------------------------ quota

\* hisfs.config.DEFAULT_QUOTA: the quota of a customer without CustomerQuota
\* row, read from the [fs] section of hisfs.conf (here a few bytes).
DefaultQuota == 11

\* A faulty CustomerQuota.files: the content-bearing rows of every customer.
QuotaFilesOfAll(tab, customer) == {i \in DOMAIN tab : tab[i].file # NULL}

\* CustomerQuota.files: the content-bearing Inode rows of the customer
QuotaFiles(tab, customer) ==
    {i \in DOMAIN tab : tab[i].group = customer /\ tab[i].file # NULL}

\* sum(file.size for file in rows)
RECURSIVE SumSizes(_, _, _)
SumSizes(tab, st, rows) ==
    IF rows = {} THEN 0
    ELSE LET i == Least(rows) IN SizeOf(st, tab[i].file) + SumSizes(tab, st, rows \ {i})

\* CustomerQuota.used
Used(tab, st, customer) == SumSizes(tab, st, QuotaFiles(tab, customer))

\* _get_quota().quota: the customer's row, or a record built with DEFAULT_QUOTA
QuotaOf(customer) ==
    IF quotas[customer] # NULL THEN quotas[customer] ELSE DefaultQuota

\* CustomerQuota.free
Free(tab, st, customer) == QuotaOf(customer) - Used(tab, st, customer)

\* --------------------------------------------- handlers of fs/wsgi.py

NumRoots == Cardinality(Users)

\* FileManager.verified_owner / verified_group of an ordinary account
VerifiedOwner(account) == account
VerifiedGroup(account) == CustomerOf(account)

\* A request that changes nothing but the outcome.
Reply(op, err, customer, target, rec, size) ==
    /\ last' = Outcome(op, err, customer, target, rec, << >>, size)
    /\ UNCHANGED <<inodes, nextId, store, nextBlob, quotas, files, nextFile>>

\* FileManager.post: data = NULL creates a directory, otherwise a file of
\* data bytes.  addOk: filedb accepts the add.
FsPost(account, path, data, addOk) ==
    LET owner == VerifiedOwner(account)
        group == VerifiedGroup(account)
        hit == ByPath(inodes, path, owner, group)
        par == ByPath(inodes, DirName(path), owner, group)
    IN
    IF hit.err = "ok" THEN Reply("post", "FileExists", group, hit.node, FALSE, data)
    ELSE IF hit.err # "NoSuchNode" THEN Reply("post", hit.err, group, NULL, FALSE, data)
    ELSE IF par.err # "ok" THEN Reply("post", par.err, group, NULL, FALSE, data)
    ELSE IF data # NULL /\ ~addOk THEN Reply("post", "FileError", group, NULL, FALSE, data)
    ELSE /\ nextId <= NumRoots + MaxInodes
         /\ data # NULL => nextBlob <= MaxBlobs
         /\ inodes' = With(inodes, nextId,
                           Row(par.node, BaseName(path), owner, group, NULL,
                               IF data = NULL THEN NULL ELSE nextBlob))
         /\ nextId' = nextId + 1
         /\ store' = IF data = NULL THEN store ELSE StoreAdd(store, data)
         /\ nextBlob' = IF data = NULL THEN nextBlob ELSE nextBlob + 1
         /\ last' = Outcome("post", "ok", group, nextId, FALSE, << >>, data)
         /\ UNCHANGED <<quotas, files, nextFile>>

\* The data setter of Inode (fs/orm.py:256-270, hisfs/orm.py:217-231) on a
\* saved row, followed by save(): the new table and store and the error.
SetData(tab, st, i, size, addOk, delOk) ==
    IF tab[i].file = NULL THEN [tab |-> tab, st |-> st, err |-> "NotAFile"]
    ELSE IF ~addOk THEN [tab |-> tab, st |-> st, err |-> "WriteError"]
    ELSE [tab |-> With(tab, i, [tab[i] EXCEPT !.file = nextBlob]),
          st |-> IF delOk THEN StoreDelete(StoreAdd(st, size), tab[i].file)
                 ELSE StoreAdd(st, size),
          err |-> "ok"]

\* FileManager.put.  The handler reads the request body twice and hands the
\* second read to the setter: got is what that read returns, the body or
\* nothing, depending on the request's file object.
FsPut(account, path, size, got, addOk, delOk) ==
    LET owner == VerifiedOwner(account)
        group == VerifiedGroup(account)
        hit == ByPath(inodes, path, owner, group)
        set == SetData(inodes, store, hit.node, got, addOk, delOk)
    IN
    IF hit.err # "ok" THEN Reply("put", hit.err, group, NULL, FALSE, size)
    ELSE IF set.err # "ok" THEN Reply("put", set.err, group, hit.node, FALSE, size)
    ELSE /\ nextBlob <= MaxBlobs
         /\ inodes' = set.tab
         /\ store' = set.st
         /\ nextBlob' = nextBlob + 1
         /\ last' = Outcome("put", "ok", group, hit.node, FALSE, << >>, got)
         /\ UNCHANGED <<nextId, quotas, files, nextFile>>

\* FileManager.delete: the lookup, then Inode.remove of fs/orm.py.
FsDelete(account, path, recursive, delOk) ==
    LET owner == VerifiedOwner(account)
        group == VerifiedGroup(account)
        hit == ByPath(inodes, path, owner, group)
        done == FsRemove(RmState(inodes, store, << >>, "ok"), hit.node, recursive, delOk)
    IN
    IF hit.err # "ok" THEN Reply("fsremove", hit.err, group, NULL, recursive, 0)
    ELSE /\ inodes' = done.tab
         /\ store' = done.st
         /\ last' = Outcome("fsremove", done.err, group, hit.node, recursive, done.removed, 0)
         /\ UNCHANGED <<nextId, nextBlob, quotas, files, nextFile>>

\* Inode.remove of hisfs/orm.py on an existing row.
HisfsDelete(i, recursive, delOk) ==
    LET done == HisfsRemove(RmState(inodes, store, << >>, "ok"), i, recursive, delOk) IN
    /\ i \in DOMAIN inodes
    /\ inodes' = done.tab
    /\ store' = done.st
    /\ last' = Outcome("hisfsremove", done.err, inodes[i].group, i, recursive, done.removed, 0)
    /\ UNCHANGED <<nextId, nextBlob, quotas, files, nextFile>>

\* ---------------------------------------------- the lifecycle specification

\* The provisioned state: one root directory per account scope, nothing else.
RootRows ==
    [i \in 1..NumRoots |->
        LET account == CHOOSE a \in Users : TRUE IN
        Row(NULL, "", account, CustomerOf(account), NULL, NULL)]

Init ==
    /\ inodes = RootRows
    /\ nextId = NumRoots + 1
    /\ store = << >>
    /\ nextBlob = 1
    /\ quotas = [c \in Customers |-> NULL]
    /\ files = << >>
    /\ nextFile = 1
    /\ last = NoOutcome
    /\ asked = NoOne
    /\ inflight = NoneInFlight

\* The lifecycle specification plays the requests against a content store
\* that answers every call.
Post ==
    /\ \E account \in Users, path \in Paths, data \in {NULL} \cup FsSizes :
           FsPost(account, path, data, TRUE)
    /\ UNCHANGED <<asked, inflight>>

Put ==
    /\ \E account \in Users, path \in Paths, size \in FsSizes :
           \E got \in {size, 0} : FsPut(account, path, size, got, TRUE, TRUE)
    /\ UNCHANGED <<asked, inflight>>

Delete ==
    /\ \E account \in Users, path \in Paths, recursive \in BOOLEAN :
           FsDelete(account, path, recursive, TRUE)
    /\ UNCHANGED <<asked, inflight>>

Remove ==
    /\ \E i \in DOMAIN inodes, recursive \in BOOLEAN :
           HisfsDelete(i, recursive, TRUE)
    /\ UNCHANGED <<asked, inflight>>

Next == Post \/ Put \/ Delete \/ Remove

Spec == Init /\ [][Next]_vars

\* ------------------------------------- the File interface (hisfs/wsgi.py)

\* Rows the File table may receive in one behaviour.
MaxFiles == 2

\* The quota of a customer that has a CustomerQuota row (the 10 bytes of the
\* documented scenario).
QuotaRow == 10

\* The names of the File requests.  A name is a base and the number of the
\* suffix File.add appended ("x", "x (1)", ...); requests send bare names.
FileBases == {"x"}

\* The accounts of the File requests, with SESSION.account / CUSTOMER.id.
FileAccounts == {"u1", "u2", "r"}

\* A faulty alloc: a request for exactly the free space is refused.
AllocStrict(tab, st, customer, size) == Free(tab, st, customer) <= size

\* CustomerQuota.alloc: TRUE when it raises QuotaExceeded
AllocRefuses(tab, st, customer, size) == Free(tab, st, customer) < size

\* File rows: a name, the customer and the blob (the File model itself is
\* not part of the sources; its rows carry the columns CustomerQuota.files
\* selects by).
FileRow(name, customer, blob) == Row(NULL, name, NULL, customer, NULL, blob)

\* File.add's lookup by (name, customer)
FileByName(tab, name, customer) ==
    {i \in DOMAIN tab : tab[i].name = name /\ tab[i].group = customer}

\* File.add(name, customer, data, rename): the name the new row gets, trying
\* the suffixes in turn when rename is set, or the row in the way.
RECURSIVE FileAdd(_, _, _, _, _)
FileAdd(tab, base, k, customer, rename) ==
    LET hits == FileByName(tab, <<base, k>>, customer) IN
    IF hits = {} THEN [err |-> "ok", name |-> <<base, k>>, file |-> NULL]
    ELSE IF ~rename THEN [err |-> "FileExists", name |-> <<base, k>>, file |-> Least(hits)]
    ELSE FileAdd(tab, base, k + 1, customer, rename)

\* Model.delete_instance of a File row; the blob goes with the row.
FileDeleteInstance(tab, st, i) ==
    [tab |-> Without(tab, {i}), st |-> StoreDelete(st, tab[i].file)]

\* A File request that changes nothing but the outcome.
FileReply(op, err, customer, target, size) ==
    /\ last' = Outcome(op, err, customer, target, FALSE, << >>, size)
    /\ UNCHANGED <<inodes, nextId, store, nextBlob, quotas, files, nextFile>>

\* qalloc(bytec) on its own: the check, and nothing else.
QAlloc(account, size) ==
    LET customer == CustomerOf(account) IN
    IF AllocRefuses(files, store, customer, size)
    THEN FileReply("alloc", "QuotaExceeded", customer, NULL, size)
    ELSE FileReply("alloc", "ok", customer, NULL, size)

\* The outcome of post(name): path holds the name sent, target the id the
\* answer carries (FILE_CREATED / FILE_EXISTS .update(id=...)).
FilePosted(err, customer, target, size, base, rename) ==
    [Outcome("filepost", err, customer, target, rename, << >>, size)
        EXCEPT !.path = <<base>>]

\* A faulty post: the FileExists of File.add is passed over and the file is
\* stored under the name sent.
FilePostOverwriting(account, base, size, rename) ==
    LET customer == CustomerOf(account) IN
    IF AllocRefuses(files, store, customer, size)
    THEN /\ last' = FilePosted("QuotaExceeded", customer, NULL, size, base, rename)
         /\ UNCHANGED <<inodes, nextId, store, nextBlob, quotas, files, nextFile>>
    ELSE /\ nextFile <= MaxFiles
         /\ files' = With(files, nextFile, FileRow(<<base, 0>>, customer, nextBlob))
         /\ nextFile' = nextFile + 1
         /\ store' = StoreAdd(store, size)
         /\ nextBlob' = nextBlob + 1
         /\ last' = FilePosted("ok", customer, nextFile, size, base, rename)
         /\ UNCHANGED <<inodes, nextId, quotas>>

\* post(name): qalloc, File.add, save.
FilePost(account, base, size, rename) ==
    LET customer == CustomerOf(account)
        add == FileAdd(files, base, 0, customer, rename)
    IN
    IF AllocRefuses(files, store, customer, size)
    THEN /\ last' = FilePosted("QuotaExceeded", customer, NULL, size, base, rename)
         /\ UNCHANGED <<inodes, nextId, store, nextBlob, quotas, files, nextFile>>
    ELSE IF add.err # "ok"
    THEN /\ last' = FilePosted(add.err, customer, add.file, size, base, rename)
         /\ UNCHANGED <<inodes, nextId, store, nextBlob, quotas, files, nextFile>>
    ELSE /\ nextFile <= MaxFiles
         /\ files' = With(files, nextFile, FileRow(add.name, customer, nextBlob))
         /\ nextFile' = nextFile + 1
         /\ store' = StoreAdd(store, size)
         /\ nextBlob' = nextBlob + 1
         /\ last' = FilePosted("ok", customer, nextFile, size, base, rename)
         /\ UNCHANGED <<inodes, nextId, quotas>>

\* A faulty with_file: the row is looked up by its id alone.
WithFileOfAnyone(tab, account, ident) == {i \in DOMAIN tab : i = ident}

\* with_file: the rows the session may address by id
WithFile(tab, account, ident) ==
    {i \in DOMAIN tab : /\ i = ident
                        /\ IsRootAccount(account) \/ tab[i].group = CustomerOf(account)}

\* HOOKS['on_delete'] of hisfs.hooks: each hook is one that runs, one whose
\* callable cannot be loaded, or one that raises.
HookKinds == {"runs", "unloadable", "raises"}

\* The most hooks a configuration lists.
MaxHooks == 2

HookConfigs == UNION {[1..n -> HookKinds] : n \in 0..MaxHooks}

\* A faulty Hook.__call__: the exception of the hook is not caught.
HookCallUncaught(kind, k, ident, tab) ==
    [hook |-> k, ident |-> ident, present |-> ident \in DOMAIN tab,
     logged |-> "none",
     raised |-> CASE kind = "runs" -> "ok"
                  [] kind = "unloadable" -> "LoadingError"
                  [] OTHER -> "Exception"]

\* Hook.__call__(ident) of the k-th hook: what it was called with, whether
\* the File row was there then, what it logged as error and what it raised.
HookCall(kind, k, ident, tab) ==
    [hook |-> k, ident |-> ident, present |-> ident \in DOMAIN tab,
     logged |-> CASE kind = "runs" -> "none"
                  [] kind = "unloadable" -> "LoadingError"
                  [] OTHER -> "Failed to run hook",
     raised |-> "ok"]

\* run_delete_hooks(ident): the hooks from the k-th on, in the order of the
\* configuration; an exception leaves the loop.
RECURSIVE RunDeleteHooks(_, _, _, _)
RunDeleteHooks(hooks, k, ident, tab) ==
    IF k > Len(hooks) THEN << >>
    ELSE LET call == HookCall(hooks[k], k, ident, tab) IN
         IF call.raised # "ok" THEN <<call>>
         ELSE <<call>> \o RunDeleteHooks(hooks, k + 1, ident, tab)

\* The outcome of delete(ident): batch holds the hooks configured and the
\* calls made.
FileDeleted(err, customer, target, removed, size, hooks, calls) ==
    [Outcome("filedelete", err, customer, target, FALSE, removed, size)
        EXCEPT !.batch = [hooks |-> hooks, calls |-> calls]]

\* delete(ident): with_file, the hooks, delete_instance.
FileDelete(account, ident, hooks) ==
    LET customer == CustomerOf(account)
        hits == WithFile(files, account, ident)
        calls == RunDeleteHooks(hooks, 1, ident, files)
        raised == IF calls = << >> THEN "ok" ELSE calls[Len(calls)].raised
        done == FileDeleteInstance(files, store, ident)
    IN
    IF hits = {}
    THEN /\ last' = FileDeleted("NoSuchFile", customer, NULL, << >>, 0, hooks, << >>)
         /\ UNCHANGED <<inodes, nextId, store, nextBlob, quotas, files, nextFile>>
    ELSE IF raised # "ok"
    THEN /\ last' = FileDeleted(raised, customer, ident, << >>, 0, hooks, calls)
         /\ UNCHANGED <<inodes, nextId, store, nextBlob, quotas, files, nextFile>>
    ELSE /\ files' = done.tab
         /\ store' = done.st
         /\ last' = FileDeleted("ok", customer, ident, <<ident>>,
                                SizeOf(store, files[ident].file), hooks, calls)
         /\ UNCHANGED <<inodes, nextId, nextBlob, quotas, nextFile>>

FileInit ==
    /\ inodes = << >>
    /\ nextId = 1
    /\ store = << >>
    /\ nextBlob = 1
    /\ quotas \in [Customers -> {NULL, QuotaRow}]
    /\ quotas["c0"] = NULL
    /\ files = << >>
    /\ nextFile = 1
    /\ last = NoOutcome
    /\ asked = NoOne
    /\ inflight = NoneInFlight

Alloc ==
    /\ \E account \in FileAccounts, size \in Sizes : QAlloc(account, size)
    /\ UNCHANGED <<asked, inflight>>

Upload ==
    /\ \E account \in FileAccounts, base \in FileBases, size \in Sizes,
           rename \in BOOLEAN : FilePost(account, base, size, rename)
    /\ UNCHANGED <<asked, inflight>>

Unlink ==
    /\ \E account \in FileAccounts, ident \in 1..MaxFiles :
           FileDelete(account, ident, << >>)
    /\ UNCHANGED <<asked, inflight>>

FileNext == Alloc \/ Upload \/ Unlink

SpecFile == FileInit /\ [][FileNext]_vars

\* ------------------------------------- delete by id (hisfs/wsgi.py, hooks)

\* A File row of each of two customers, with its blob.
HooksInit ==
    /\ inodes = << >>
    /\ nextId = 1
    /\ store = <<2, 9>>
    /\ nextBlob = 3
    /\ quotas = [c \in Customers |-> NULL]
    /\ files = <<FileRow(<<"x", 0>>, "c1", 1), FileRow(<<"x", 0>>, "c2", 2)>>
    /\ nextFile = 3
    /\ last = NoOutcome
    /\ asked = NoOne
    /\ inflight = NoneInFlight

UnlinkHooked ==
    /\ \E account \in FileAccounts, ident \in 1..3, hooks \in HookConfigs :
           FileDelete(account, ident, hooks)
    /\ UNCHANGED <<asked, inflight>>

HooksNext == UnlinkHooked

SpecHooks == HooksInit /\ [][HooksNext]_vars

\* ------------------------------- the batch create (hisfs/wsgi.py post_multi)

\* The most files one request carries.
MaxItems == 2

BatchNames == {"x", "y"}
BatchAccounts == {"u1"}

\* request.files.items(): the name of each file once, the bytes of its
\* stream, and whether reading the stream succeeds (it raises MemoryError
\* otherwise).
Items == [name : BatchNames, size : Sizes, readable : BOOLEAN]

Batches ==
    {b \in UNION {[1..n -> Items] : n \in 0..MaxItems} :
        \A j \in 1..Len(b) : \A k \in 1..Len(b) : j # k => b[j].name # b[k].name}

\* What the loop of post_multi carries along: the File table and the store
\* with their counters, the dicts created and existing as sets of <<key, id>>
\* and the lists too_large and quota_exceeded.
Batch(tab, st, nf, nb, created, existing, too_large, quota_exceeded) ==
    [tab |-> tab, st |-> st, nf |-> nf, nb |-> nb, created |-> created,
     existing |-> existing, too_large |-> too_large,
     quota_exceeded |-> quota_exceeded]

\* dict[key] = value
SetItem(dict, key, value) == {p \in dict : p[1] # key} \cup {<<key, value>>}

\* A faulty quota check: against the files as they were before the request.
BatchAllocRefusesStale(s, customer, size) == AllocRefuses(files, store, customer, size)

\* "_get_quota().alloc(len(data))" inside the loop: against the files as they
\* are when the item's turn comes
BatchAllocRefuses(s, customer, size) == AllocRefuses(s.tab, s.st, customer, size)

\* The body of the loop for one item.
PostMultiItem(s, item, customer, rename) ==
    LET add == FileAdd(s.tab, item.name, 0, customer, rename) IN
    IF ~item.readable
    THEN [s EXCEPT !.too_large = Append(@, <<item.name, 0>>)]
    ELSE IF BatchAllocRefuses(s, customer, item.size)
    THEN [s EXCEPT !.quota_exceeded = Append(@, <<item.name, 0>>)]
    ELSE IF add.err = "FileExists"
    THEN [s EXCEPT !.existing = SetItem(@, s.tab[add.file].name, add.file)]
    ELSE [s EXCEPT !.tab = With(@, s.nf, FileRow(add.name, customer, s.nb)),
                   !.st = With(@, s.nb, item.size),
                   !.nf = @ + 1,
                   !.nb = @ + 1,
                   !.created = SetItem(@, <<item.name, 0>>, s.nf)]

\* "for name, file_storage in request.files.items()"
RECURSIVE PostMultiLoop(_, _, _, _)
PostMultiLoop(s, items, customer, rename) ==
    IF items = << >> THEN s
    ELSE PostMultiLoop(PostMultiItem(s, Head(items), customer, rename),
                       Tail(items), customer, rename)

\* A faulty status: success whatever happened.
BatchStatusSuccess(too_large, quota_exceeded) == 200

\* "status = 400 if (too_large or quota_exceeded) else 200"
BatchStatus(too_large, quota_exceeded) ==
    IF too_large # << >> \/ quota_exceeded # << >> THEN 400 ELSE 200

\* post_multi: the loop, then FILES_CREATED with the four collections and the
\* status.
FilePostMulti(account, items, rename) ==
    LET customer == CustomerOf(account)
        done == PostMultiLoop(Batch(files, store, nextFile, nextBlob,
                                    {}, {}, << >>, << >>),
                              items, customer, rename)
    IN /\ done.nf <= MaxFiles + 1
       /\ files' = done.tab
       /\ store' = done.st
       /\ nextFile' = done.nf
       /\ nextBlob' = done.nb
       /\ last' = [Outcome("post_multi", "ok", customer, NULL, rename, << >>, 0)
                      EXCEPT !.batch =
                          [items |-> items,
                           created |-> done.created,
                           existing |-> done.existing,
                           too_large |-> done.too_large,
                           quota_exceeded |-> done.quota_exceeded,
                           status |-> BatchStatus(done.too_large,
                                                  done.quota_exceeded)]]
       /\ UNCHANGED <<inodes, nextId, quotas>>

PostMulti ==
    /\ \E account \in BatchAccounts, items \in Batches, rename \in BOOLEAN :
           FilePostMulti(account, items, rename)
    /\ UNCHANGED <<asked, inflight>>

\* The batches are sent for one customer; the other has no quota row.
BatchInit == FileInit /\ quotas["c2"] = NULL

BatchNext == PostMulti

SpecBatch == BatchInit /\ [][BatchNext]_vars

\* --------------------------- get and convert_pdf by id (hisfs/wsgi.py)

\* The most pages pdfimages yields for one document.
MaxPages == 2

\* The images of the pages, by their byte counts.
PageLists == UNION {[1..n -> Sizes] : n \in 0..MaxPages}

\* stem + f'-page{index}' + suffix, the stem being the whole name of the file
\* as the table has it.
PageName(name, index) == name \o <<"page", index>>

\* What the loop of convert_pdf carries along: the File table and the store
\* with their counters, the list pages and the exception that left the loop.
Conversion(tab, st, nf, nb, pages, err) ==
    [tab |-> tab, st |-> st, nf |-> nf, nb |-> nb, pages |-> pages, err |-> err]

\* A faulty loop body: the page is stored without asking the quota.
ConvertPageUnchecked(s, name, size, customer) ==
    LET hits == FileByName(s.tab, name, customer) IN
    IF hits # {}
    THEN [s EXCEPT !.pages = Append(@, Least(hits))]
    ELSE [s EXCEPT !.tab = With(@, s.nf, FileRow(name, customer, s.nb)),
                   !.st = With(@, s.nb, size),
                   !.nf = @ + 1,
                   !.nb = @ + 1,
                   !.pages = Append(@, s.nf)]

\* The body of the loop for one page: qalloc, File.add without rename (the
\* row in the way is taken as the page), save.
ConvertPage(s, name, size, customer) ==
    LET hits == FileByName(s.tab, name, customer) IN
    IF AllocRefuses(s.tab, s.st, customer, size)
    THEN [s EXCEPT !.err = "QuotaExceeded"]
    ELSE IF hits # {}
    THEN [s EXCEPT !.pages = Append(@, Least(hits))]
    ELSE [s EXCEPT !.tab = With(@, s.nf, FileRow(name, customer, s.nb)),
                   !.st = With(@, s.nb, size),
                   !.nf = @ + 1,
                   !.nb = @ + 1,
                   !.pages = Append(@, s.nf)]

\* "for index, bytes_ in enumerate(pdfimages(bytes_, frmt), start=1)"; the
\* QUOTA_EXCEEDED of qalloc leaves the loop and the handler.
RECURSIVE ConvertLoop(_, _, _, _, _)
ConvertLoop(s, stem, images, index, customer) ==
    IF index > Len(images) \/ s.err # "ok" THEN s
    ELSE ConvertLoop(ConvertPage(s, PageName(stem, index), images[index], customer),
                     stem, images, index + 1, customer)

\* The outcome of a request by id: carried holds what the answer carries
\* (the ids of the pages, the bytes of the file).
ById(op, err, customer, target, carried) ==
    [Outcome(op, err, customer, target, FALSE, << >>, 0) EXCEPT !.carried = carried]

\* convert_pdf(ident): with_file, is_pdf, the loop over the pages.  The pages
\* are stored for CUSTOMER, the customer of the session.
FileConvertPdf(account, ident, isPdf, images) ==
    LET customer == CustomerOf(account)
        hits == WithFile(files, account, ident)
        done == ConvertLoop(Conversion(files, store, nextFile, nextBlob, << >>, "ok"),
                            files[ident].name, images, 1, customer)
    IN
    IF hits = {}
    THEN /\ last' = ById("convert_pdf", "NoSuchFile", customer, NULL, << >>)
         /\ UNCHANGED <<inodes, nextId, store, nextBlob, quotas, files, nextFile>>
    ELSE IF ~isPdf
    THEN /\ last' = ById("convert_pdf", "NotAPDFDocument", customer, ident, << >>)
         /\ UNCHANGED <<inodes, nextId, store, nextBlob, quotas, files, nextFile>>
    ELSE /\ done.nf <= MaxFiles + 1
         /\ files' = done.tab
         /\ store' = done.st
         /\ nextFile' = done.nf
         /\ nextBlob' = done.nb
         /\ last' = ById("convert_pdf", done.err, customer, ident, done.pages)
         /\ UNCHANGED <<inodes, nextId, quotas>>

\* get(ident): with_file, then the bytes of the file (no thumbnail asked).
FileGet(account, ident) ==
    LET customer == CustomerOf(account)
        hits == WithFile(files, account, ident)
    IN /\ last' = IF hits = {}
                  THEN ById("get", "NoSuchFile", customer, NULL, << >>)
                  ELSE ById("get", "ok", customer, ident,
                            <<SizeOf(store, files[ident].file)>>)
       /\ UNCHANGED <<inodes, nextId, store, nextBlob, quotas, files, nextFile>>

\* ------------------------------------------ tenants (hisfs/wsgi.py, fs/wsgi.py)

\* FileManager.verified_group with the group the request names ("none":
\* it names none): "self.group or self.account.customer" for root, the
\* account's customer for everybody else.
VerifiedGroupAsked(account, group) ==
    IF IsRootAccount(account)
    THEN IF group # "none" THEN group ELSE CustomerOf(account)
    ELSE CustomerOf(account)

\* The scope a request of the path interface runs in: customer is the
\* verified group, path the group the request named.
FsScopeOf(account, group) ==
    /\ last' = [Outcome("scope", "ok", VerifiedGroupAsked(account, group), NULL,
                        FALSE, << >>, 0) EXCEPT !.path = <<group>>]
    /\ asked' = Principal(account, VerifiedGroupAsked(account, group))
    /\ UNCHANGED <<inodes, nextId, store, nextBlob, quotas, files, nextFile, inflight>>

\* One File row, of the customer c2, with its blob.
TenantInit ==
    /\ inodes = << >>
    /\ nextId = 1
    /\ store = <<2>>
    /\ nextBlob = 2
    /\ quotas = [c \in Customers |-> NULL]
    /\ files = <<FileRow(<<"x", 0>>, "c2", 1)>>
    /\ nextFile = 2
    /\ last = NoOutcome
    /\ asked = NoOne
    /\ inflight = NoneInFlight

TenantGet ==
    /\ \E account \in FileAccounts, ident \in 1..MaxFiles : FileGet(account, ident)
    /\ UNCHANGED <<asked, inflight>>

\* The hooks configured: one that runs and one that raises.
TenantHooks == <<"runs", "raises">>

\* The documents converted have one page.
TenantImages == {<<size>> : size \in Sizes}

TenantDelete ==
    /\ \E account \in FileAccounts, ident \in 1..MaxFiles :
           FileDelete(account, ident, TenantHooks)
    /\ UNCHANGED <<asked, inflight>>

TenantConvert ==
    /\ \E account \in FileAccounts, ident \in 1..MaxFiles :
           \/ FileConvertPdf(account, ident, FALSE, << >>)
           \/ \E images \in TenantImages : FileConvertPdf(account, ident, TRUE, images)
    /\ UNCHANGED <<asked, inflight>>

TenantScope ==
    \E account \in FileAccounts, group \in Customers \cup {"none"} :
        FsScopeOf(account, group)

TenantNext == TenantGet \/ TenantDelete \/ TenantConvert \/ TenantScope

SpecTenant == TenantInit /\ [][TenantNext]_vars

\* --------------------------------- the quota under every writer, in turn

\* The requests of one customer, one after the other.
QuotaAccount == "u1"

QuotaPost ==
    /\ \E base \in FileBases, size \in Sizes, rename \in BOOLEAN :
           FilePost(QuotaAccount, base, size, rename)
    /\ UNCHANGED <<asked, inflight>>

\* The batches whose streams all read: the other items store nothing.
QuotaBatches == {b \in Batches : \A k \in 1..Len(b) : b[k].readable}

QuotaPostMulti ==
    /\ \E items \in QuotaBatches, rename \in BOOLEAN :
           FilePostMulti(QuotaAccount, items, rename)
    /\ UNCHANGED <<asked, inflight>>

QuotaConvert ==
    /\ \E ident \in 1..MaxFiles :
           \/ FileConvertPdf(QuotaAccount, ident, FALSE, << >>)
           \/ \E images \in PageLists :
                  FileConvertPdf(QuotaAccount, ident, TRUE, images)
    /\ UNCHANGED <<asked, inflight>>

QuotaDelete ==
    /\ \E ident \in 1..MaxFiles : FileDelete(QuotaAccount, ident, << >>)
    /\ UNCHANGED <<asked, inflight>>

QuotaNext == QuotaPost \/ QuotaPostMulti \/ QuotaConvert \/ QuotaDelete

\* The customer has a quota row.
QuotaInit == FileInit /\ quotas["c1"] = QuotaRow /\ quotas["c2"] = NULL

SpecQuota == QuotaInit /\ [][QuotaNext]_vars

\* ------------------------------------------------------------ permissions

\* The mode of a row is the integer of its nine permission bits; FileMode and
\* PosixMode split it into the triads user, group and other, each with the
\* bits read, write and execute.
TriadShift == [user |-> 6, group |-> 3, other |-> 0]
PermShift == [read |-> 2, write |-> 1, execute |-> 0]

RECURSIVE Pow2(_)
Pow2(k) == IF k = 0 THEN 1 ELSE 2 * Pow2(k - 1)

\* mode.<triad>.<perm>
Has(mode, triad, perm) ==
    (mode \div Pow2(TriadShift[triad] + PermShift[perm])) % 2 = 1

\* A read check that lets only the first applicable triad decide.
Fs_ReadableByFirstTriad(tab, i, account) ==
    IF IsRootAccount(account) THEN TRUE
    ELSE IF account = tab[i].owner THEN Has(tab[i].mode, "user", "read")
    ELSE IF CustomerOf(account) = CustomerOf(tab[i].owner)
         THEN Has(tab[i].mode, "group", "read")
         ELSE Has(tab[i].mode, "other", "read")

\* fs/orm.py: Inode._readable_by
Fs_ReadableBy(tab, i, account) ==
    LET mode == tab[i].mode IN
    IF IsRootAccount(account) THEN TRUE
    ELSE IF Has(mode, "user", "read") /\ account = tab[i].owner THEN TRUE
    ELSE IF Has(mode, "group", "read")
            /\ CustomerOf(account) = CustomerOf(tab[i].owner) THEN TRUE
    ELSE IF Has(mode, "other", "read") THEN TRUE
    ELSE FALSE

\* fs/orm.py: Inode._writable_by
Fs_WritableBy(tab, i, account) ==
    LET mode == tab[i].mode IN
    IF Has(mode, "user", "write") /\ account = tab[i].owner THEN TRUE
    ELSE IF Has(mode, "group", "write")
            /\ CustomerOf(account) = CustomerOf(tab[i].owner) THEN TRUE
    ELSE IF Has(mode, "other", "write") THEN TRUE
    ELSE FALSE

\* fs/orm.py: Inode._executable_by
Fs_ExecutableBy(tab, i, account) ==
    LET mode == tab[i].mode IN
    IF Has(mode, "user", "execute") /\ account = tab[i].owner THEN TRUE
    ELSE IF Has(mode, "group", "execute")
            /\ CustomerOf(account) = CustomerOf(tab[i].owner) THEN TRUE
    ELSE IF Has(mode, "other", "execute") THEN TRUE
    ELSE FALSE

\* hisfs/orm.py: Inode.readable_by
HisfsReadableBy(tab, i, user, group) ==
    \/ IsRootAccount(user)
    \/ Has(tab[i].mode, "user", "read") /\ tab[i].owner = user
    \/ Has(tab[i].mode, "group", "read") /\ tab[i].group = group
    \/ Has(tab[i].mode, "other", "read")

\* hisfs/orm.py: Inode.writable_by
HisfsWritableBy(tab, i, user, group) ==
    \/ IsRootAccount(user)
    \/ Has(tab[i].mode, "user", "write") /\ tab[i].owner = user
    \/ Has(tab[i].mode, "group", "write") /\ tab[i].group = group
    \/ Has(tab[i].mode, "other", "write")

\* hisfs/orm.py: Inode.executable_by
HisfsExecutableBy(tab, i, user, group) ==
    \/ IsRootAccount(user)
    \/ Has(tab[i].mode, "user", "execute") /\ tab[i].owner = user
    \/ Has(tab[i].mode, "group", "execute") /\ tab[i].group = group
    \/ Has(tab[i].mode, "other", "execute")

\* What a permission question leaves behind: the method asked, its answer,
\* the group asked for and the row asked about.
Answer(op, granted, group, i) ==
    Outcome(op, IF granted THEN "granted" ELSE "denied", group, i, FALSE, << >>, 0)

FsMethods == {"_readable_by", "_writable_by", "_executable_by"}
HisfsMethods == {"readable_by", "writable_by", "executable_by"}

\* A call of one of the three methods on a row of fs/orm.py
FsAsk(account, i, method) ==
    LET granted == CASE method = "_readable_by" -> Fs_ReadableBy(inodes, i, account)
                     [] method = "_writable_by" -> Fs_WritableBy(inodes, i, account)
                     [] method = "_executable_by" -> Fs_ExecutableBy(inodes, i, account)
    IN /\ last' = Answer(method, granted, CustomerOf(account), i)
       /\ asked' = Principal(account, CustomerOf(account))
       /\ UNCHANGED inflight
       /\ UNCHANGED <<inodes, nextId, store, nextBlob, quotas, files, nextFile>>

\* A call of one of the three methods on a row of hisfs/orm.py
HisfsAsk(user, group, i, method) ==
    LET granted == CASE method = "readable_by" -> HisfsReadableBy(inodes, i, user, group)
                     [] method = "writable_by" -> HisfsWritableBy(inodes, i, user, group)
                     [] method = "executable_by" -> HisfsExecutableBy(inodes, i, user, group)
    IN /\ last' = Answer(method, granted, group, i)
       /\ asked' = Principal(user, group)
       /\ UNCHANGED inflight
       /\ UNCHANGED <<inodes, nextId, store, nextBlob, quotas, files, nextFile>>

\* The largest mode value.
MaxMode == 511

Owners == {"u1", "u2"}
Groups == {"c1", "c2"}

\* One inode of any mode, owner and group, asked about by every principal.
PermInit ==
    /\ \E mode \in 0..MaxMode, owner \in Owners, group \in Groups :
          inodes = <<Row(NULL, "", owner, group, mode, NULL)>>
    /\ nextId = 2
    /\ store = << >>
    /\ nextBlob = 1
    /\ quotas = [c \in Customers |-> NULL]
    /\ files = << >>
    /\ nextFile = 1
    /\ last = NoOutcome
    /\ asked = NoOne
    /\ inflight = NoneInFlight

AskFs == \E account \in Accounts, i \in DOMAIN inodes, method \in FsMethods :
            FsAsk(account, i, method)

AskHisfs == \E user \in Accounts, group \in Groups, i \in DOMAIN inodes,
               method \in HisfsMethods : HisfsAsk(user, group, i, method)

PermNext == AskFs \/ AskHisfs

SpecPerm == PermInit /\ [][PermNext]_vars

\* ------------------------------------------------ the policy (hisfs/policy.py)

\* hisfs/orm.py: Inode.parents, the nearest first
RECURSIVE Parents(_, _)
Parents(tab, i) ==
    IF tab[i].parent = NULL THEN << >>
    ELSE <<tab[i].parent>> \o Parents(tab, tab[i].parent)

\* The loop "for parent in ...parents: if not parent.executable_by(...)": the
\* first parent that is not executable, NULL if all are.
RECURSIVE FirstNotExecutable(_, _, _, _)
FirstNotExecutable(tab, parents, user, group) ==
    IF parents = << >> THEN NULL
    ELSE IF ~HisfsExecutableBy(tab, Head(parents), user, group) THEN Head(parents)
    ELSE FirstNotExecutable(tab, Tail(parents), user, group)

\* UserInode.__init__ stores the name Group, not its argument group, as the
\* group of the context: a value that is the group of no row.
GroupOfContext == "Group"

PolicyReply(op, err, target, size) ==
    Outcome(op, err, GroupOfContext, target, FALSE, << >>, size)

\* UserInode.read(file)
UserInodeRead(user, file) ==
    LET group == GroupOfContext
        err == IF ~IsFile(inodes, file) THEN "NotAFile"
               ELSE IF FirstNotExecutable(inodes, Parents(inodes, file), user, group) # NULL
               THEN "NotExecutable"
               ELSE IF HisfsReadableBy(inodes, file, user, group) THEN "ok"
               ELSE "NotReadable"
    IN /\ last' = PolicyReply("read", err, file,
                              IF err = "ok" THEN SizeOf(store, inodes[file].file) ELSE 0)
       /\ asked' = Principal(user, group)
       /\ UNCHANGED inflight
       /\ UNCHANGED <<inodes, nextId, store, nextBlob, quotas, files, nextFile>>

\* hisfs/orm.py: Inode.to_dict(children), the rows under 'content'
HisfsToDict(tab, i, children) ==
    IF IsDir(tab, i) /\ children THEN InOrder(ChildrenOf(tab, i)) ELSE << >>

\* UserInode.list(inode)
UserInodeList(user, inode) ==
    LET group == GroupOfContext
        err == IF FirstNotExecutable(inodes, Parents(inodes, inode), user, group) # NULL
               THEN "NotExecutable"
               ELSE IF HisfsReadableBy(inodes, inode, user, group) THEN "ok"
               ELSE "NotReadable"
    IN /\ last' = Listing("list", err, GroupOfContext, inode,
                           IF err = "ok" THEN HisfsToDict(inodes, inode, TRUE)
                           ELSE << >>)
       /\ asked' = Principal(user, group)
       /\ UNCHANGED inflight
       /\ UNCHANGED <<inodes, nextId, store, nextBlob, quotas, files, nextFile>>

\* directory.get_child(filename): the rows of that name in the directory
GetChild(tab, directory, filename) ==
    {i \in DOMAIN tab : tab[i].parent = directory /\ tab[i].name = filename}

\* Inode.add_file(directory, data, filename): a new file row in the directory
\* for the bytes handed in, owned by the user, with the directory's group and
\* mode.
AddFile(tab, directory, filename, user) ==
    With(tab, nextId, Row(directory, filename, user, tab[directory].group,
                          tab[directory].mode, nextBlob))

\* The largest Inode id the policy's writes may reach.
PolicyMaxId == 4

\* UserInode.write(data, directory, filename).  The check of an existing file
\* calls writable_by with three arguments, which raises TypeError.
UserInodeWrite(user, directory, filename, size) ==
    LET group == GroupOfContext
        child == GetChild(inodes, directory, filename)
        err == IF ~IsDir(inodes, directory) THEN "NotADirectory"
               ELSE IF FirstNotExecutable(inodes, Parents(inodes, directory), user, group) # NULL
               THEN "NotExecutable"
               ELSE IF ~HisfsExecutableBy(inodes, directory, user, group)
               THEN "NotExecutable"
               ELSE IF child = {}
               THEN (IF HisfsWritableBy(inodes, directory, user, group)
                     THEN "ok" ELSE "NotWritable")
               ELSE IF IsFile(inodes, Least(child)) THEN "TypeError"
               ELSE "NotAFile"
    IN /\ nextId <= PolicyMaxId
       /\ last' = PolicyReply("write", err, directory, size)
       /\ asked' = Principal(user, group)
       /\ UNCHANGED inflight
       /\ IF err = "ok"
          THEN /\ inodes' = AddFile(inodes, directory, filename, user)
               /\ nextId' = nextId + 1
               /\ store' = StoreAdd(store, size)
               /\ nextBlob' = nextBlob + 1
          ELSE UNCHANGED <<inodes, nextId, store, nextBlob>>
       /\ UNCHANGED <<quotas, files, nextFile>>

\* fs/orm.py: Inode._parents_readable.  It starts from self.inode.parent, and
\* no Inode has an attribute inode: the call raises AttributeError.
Fs_ParentsReadable(tab, i, account) == "AttributeError"

\* fs/orm.py: Inode.readable_by, "self._readable_by(account) and
\* self._parents_readable(account)"
FsReadableBy(tab, i, account) ==
    IF ~Fs_ReadableBy(tab, i, account) THEN "denied"
    ELSE Fs_ParentsReadable(tab, i, account)

\* fs/orm.py: Inode.writable_by
FsWritableBy(tab, i, account) ==
    IF ~Fs_WritableBy(tab, i, account) THEN "denied"
    ELSE Fs_ParentsReadable(tab, i, account)

\* fs/orm.py: Inode.executable_by
FsExecutableBy(tab, i, account) ==
    IF ~Fs_ExecutableBy(tab, i, account) THEN "denied"
    ELSE Fs_ParentsReadable(tab, i, account)

FsChecks == {"fs.readable_by", "fs.writable_by", "fs.executable_by"}

\* A call of Inode.readable_by / writable_by / executable_by of fs/orm.py
FsCheck(account, i, method) ==
    LET answer == CASE method = "fs.readable_by" -> FsReadableBy(inodes, i, account)
                    [] method = "fs.writable_by" -> FsWritableBy(inodes, i, account)
                    [] method = "fs.executable_by" -> FsExecutableBy(inodes, i, account)
    IN /\ last' = Outcome(method, answer, CustomerOf(account), i, FALSE, << >>, 0)
       /\ asked' = Principal(account, CustomerOf(account))
       /\ UNCHANGED inflight
       /\ UNCHANGED <<inodes, nextId, store, nextBlob, quotas, files, nextFile>>

\* fs/orm.py: Inode.to_dict(children, ...), the rows under 'children'
FsToDict(tab, i, children) ==
    IF IsDir(tab, i) /\ children THEN InOrder(ChildrenOf(tab, i)) ELSE << >>

\* fs/orm.py: Inode.dict_for(account).  The test is executable_by of the
\* parent, or of the inode itself when it has none; a denial answers {}.
FsDictFor(account, i) ==
    LET gate == IF inodes[i].parent # NULL THEN inodes[i].parent ELSE i
        answer == FsExecutableBy(inodes, gate, account)
        content == IF answer = "granted" /\ IsDir(inodes, i)
                   THEN InOrder(ChildrenOf(inodes, i))
                   ELSE FsToDict(inodes, i, FALSE)
    IN /\ last' = Listing("dict_for",
                           IF answer \in {"granted", "denied"} THEN "ok" ELSE answer,
                           CustomerOf(account), i, content)
       /\ asked' = Principal(account, CustomerOf(account))
       /\ UNCHANGED inflight
       /\ UNCHANGED <<inodes, nextId, store, nextBlob, quotas, files, nextFile>>

PolicyModes == {0, 292, 448, 511}
PolicyUsers == {"u1", "u2", "r"}

\* A directory in the root directory and an inode in it, a file or a
\* directory, all of user u1 and with modes of their own.
PolicyInit ==
    /\ \E top \in PolicyModes, mid \in PolicyModes, low \in PolicyModes,
          file \in {NULL, 1} :
          /\ inodes = <<Row(NULL, "", "u1", "c1", top, NULL),
                        Row(1, "a", "u1", "c1", mid, NULL),
                        Row(2, "b", "u1", "c1", low, file)>>
          /\ store = IF file = NULL THEN << >> ELSE <<6>>
    /\ nextId = 4
    /\ nextBlob = 2
    /\ quotas = [c \in Customers |-> NULL]
    /\ files = << >>
    /\ nextFile = 1
    /\ last = NoOutcome
    /\ asked = NoOne
    /\ inflight = NoneInFlight

Read == \E user \in PolicyUsers, file \in DOMAIN inodes : UserInodeRead(user, file)

List == \E user \in PolicyUsers, inode \in DOMAIN inodes : UserInodeList(user, inode)

Write == \E user \in PolicyUsers, directory \in DOMAIN inodes, filename \in Names,
            size \in FsSizes : UserInodeWrite(user, directory, filename, size)

Check == \E account \in PolicyUsers, i \in DOMAIN inodes, method \in FsChecks :
            FsCheck(account, i, method)

DictFor == \E account \in PolicyUsers, i \in DOMAIN inodes : FsDictFor(account, i)

PolicyNext == Read \/ List \/ Write \/ Check \/ DictFor

SpecPolicy == PolicyInit /\ [][PolicyNext]_vars

\* -------------------------------- the ancestors' check (fs/api.py, fs/orm.py)

\* fs/api.py: INode.parents_readable.  The loop tests self.inode.parent and
\* never assigns parent again: it ends with the answer of the first parent,
\* or with what parent.executable_by of fs/orm.py raises, and would test
\* the same parent for ever if that call granted.
ApiParentsReadable(tab, i, account) ==
    LET parent == tab[i].parent IN
    IF parent = NULL THEN "True"
    ELSE IF ~IsDir(tab, parent) THEN "ConsistencyError"
    ELSE LET answer == FsExecutableBy(tab, parent, account) IN
         IF answer = "denied" THEN "False"
         ELSE IF answer = "granted" THEN "NoTermination"
         ELSE answer

ParentsChecks == {"api.parents_readable", "fs._parents_readable"}

\* A call of the ancestors' check on the row i.
ParentsReadableCall(account, i, method) ==
    LET answer == IF method = "api.parents_readable"
                  THEN ApiParentsReadable(inodes, i, account)
                  ELSE Fs_ParentsReadable(inodes, i, account)
    IN /\ last' = Outcome(method, answer, CustomerOf(account), i, FALSE, << >>, 0)
       /\ asked' = Principal(account, CustomerOf(account))
       /\ UNCHANGED <<inodes, nextId, store, nextBlob, quotas, files, nextFile, inflight>>

CheckParents ==
    \E account \in PolicyUsers, i \in DOMAIN inodes, method \in ParentsChecks :
        ParentsReadableCall(account, i, method)

AncestorsNext == CheckParents \/ Check

SpecAncestors == PolicyInit /\ [][AncestorsNext]_vars

\* ----------------------------------------------------------- path strings

\* A path string is the sequence of its characters; the names of the rows
\* are single characters, so a component of several is the name of no row.
PATHSEP == "/"
PathChars == {PATHSEP, "a", "b"}

\* The longest path string a request sends.
MaxPathLen == 4

PathStrings == UNION {[1..n -> PathChars] : n \in 0..MaxPathLen}

\* str.split(PATHSEP): the components between the separators, empty ones
\* included.
RECURSIVE Split(_)
Split(s) ==
    IF s = << >> THEN << << >> >>
    ELSE LET rest == Split(Tail(s)) IN
         IF Head(s) = PATHSEP THEN << << >> >> \o rest
         ELSE << <<Head(s)>> \o Head(rest) >> \o Tail(rest)

\* PATHSEP.join(parts)
RECURSIVE Join(_)
Join(parts) ==
    IF parts = << >> THEN << >>
    ELSE IF Len(parts) = 1 THEN parts[1]
    ELSE parts[1] \o <<PATHSEP>> \o Join(Tail(parts))

\* reversed(sequence)
Reversed(seq) == [k \in 1..Len(seq) |-> seq[Len(seq) + 1 - k]]

NonEmpty(parts) == SelectSeq(parts, LAMBDA c : c # << >>)

\* s.startswith(PATHSEP * n)
StartsWithSeps(s, n) == Len(s) >= n /\ \A k \in 1..n : s[k] = PATHSEP

\* The leading separators posixpath and pathlib keep: one, or two when the
\* string starts with exactly two.
LeadingSeps(s) ==
    IF StartsWithSeps(s, 2) /\ ~StartsWithSeps(s, 3) THEN 2
    ELSE IF StartsWithSeps(s, 1) THEN 1 ELSE 0

\* os.path.normpath of a string that is not empty (the alphabet has no dot,
\* so there are no "." and ".." components to resolve)
NormPath(s) ==
    [k \in 1..LeadingSeps(s) |-> PATHSEP] \o Join(NonEmpty(Split(s)))

\* pathlib: PurePosixPath(s).parts
Parts(s) ==
    (IF LeadingSeps(s) = 0 THEN << >>
     ELSE << [k \in 1..LeadingSeps(s) |-> PATHSEP] >>) \o NonEmpty(Split(s))

\* The name a component spells, as the rows hold names.
AsName(comp) ==
    IF comp = << >> THEN ""
    ELSE IF Len(comp) = 1 THEN comp[1]
    ELSE "long"

\* The characters of a row's name.
NameChars(name) == IF name = "" THEN << >> ELSE <<name>>

AsNames(comps) == [k \in 1..Len(comps) |-> AsName(comps[k])]

\* fs/orm.py: Inode.node_path(path, owner, group).  _node_path pops the
\* reversed list from its end, that is, takes the components first to last.
FsNodePath(tab, s, owner, group) ==
    LET comps == IF s = << >> THEN << >>
                 ELSE IF NormPath(s) = <<PATHSEP>> THEN << >>
                 ELSE Split(NormPath(s))
    IN NodePath(tab, AsNames(comps), owner, group)

\* The loop of Inode.from_path (fs/orm.py): empty components are skipped,
\* a missing one raises FileNotFound with the joined path processed so far.
RECURSIVE FromPathWalk(_, _, _, _, _)
FromPathWalk(tab, parent, comps, customer, processed) ==
    IF comps = << >> THEN [err |-> "ok", node |-> parent, carried |-> << >>]
    ELSE IF Head(comps) = << >>
    THEN FromPathWalk(tab, parent, Tail(comps), customer, processed)
    ELSE LET walked == Append(processed, Head(comps))
             hits == {i \in DOMAIN tab : /\ tab[i].group = customer
                                         /\ tab[i].parent = parent
                                         /\ tab[i].name = AsName(Head(comps))}
         IN IF hits = {}
            THEN [err |-> "FileNotFound", node |-> NULL, carried |-> Join(walked)]
            ELSE FromPathWalk(tab, Least(hits), Tail(comps), customer, walked)

\* fs/orm.py: Inode.from_path(path, customer)
FsFromPath(tab, s, customer) ==
    LET roots == {i \in DOMAIN tab : /\ tab[i].file = NULL
                                     /\ tab[i].parent = NULL
                                     /\ tab[i].group = customer}
    IN IF roots = {} THEN [err |-> "DoesNotExist", node |-> NULL, carried |-> << >>]
       ELSE FromPathWalk(tab, Least(roots), Split(s), customer, << << >> >>)

\* hisfs/orm.py: Inode.by_path_nodes(nodes, owner, group), both given
RECURSIVE HisfsByPathNodes(_, _, _, _, _)
HisfsByPathNodes(tab, parent, nodes, owner, group) ==
    IF nodes = << >> THEN [err |-> "ok", node |-> parent]
    ELSE LET hits == {i \in DOMAIN tab : /\ tab[i].name = AsName(Head(nodes))
                                         /\ tab[i].parent = parent
                                         /\ tab[i].owner = owner
                                         /\ tab[i].group = group}
         IN IF hits = {} THEN [err |-> "FileNotFoundError", node |-> NULL]
            ELSE HisfsByPathNodes(tab, Least(hits), Tail(nodes), owner, group)

\* hisfs/orm.py: Inode.by_path(path, owner, group): "root, *nodes =
\* path.parts" needs a first part, and the first part must be PATHSEP.
HisfsByPath(tab, s, owner, group) ==
    IF Parts(s) = << >> THEN [err |-> "ValueError", node |-> NULL]
    ELSE IF Parts(s)[1] # <<PATHSEP>> THEN [err |-> "ValueError", node |-> NULL]
    ELSE HisfsByPathNodes(tab, NULL, Tail(Parts(s)), owner, group)

\* fs/orm.py: Inode.revpath: the name, the names of the rows above, and ''
RECURSIVE FsRevPath(_, _)
FsRevPath(tab, i) ==
    <<NameChars(tab[i].name)>>
    \o (IF tab[i].parent = NULL THEN << << >> >> ELSE FsRevPath(tab, tab[i].parent))

\* fs/orm.py: Inode.path.  reversed() is handed the generator revpath, which
\* is not reversible: TypeError.
FsPath(tab, i) == [err |-> "TypeError", path |-> << >>]

\* hisfs/orm.py: Inode.revpath
RECURSIVE HisfsRevPath(_, _)
HisfsRevPath(tab, i) ==
    <<NameChars(tab[i].name)>>
    \o (IF tab[i].parent = NULL THEN << << >> >> ELSE HisfsRevPath(tab, tab[i].parent))

\* hisfs/orm.py: Inode.path
HisfsPath(tab, i) == [err |-> "ok", path |-> Join(Reversed(HisfsRevPath(tab, i)))]

\* The outcome of a resolution: the path string asked for, the rows returned
\* and what the raised error carries.
Resolution(op, err, customer, path, chain, carried) ==
    [Outcome(op, err, customer, NULL, FALSE, << >>, 0)
        EXCEPT !.path = path, !.listed = chain, !.carried = carried]

\* The scope the fs revision is asked in, and the one of the hisfs revision.
FsScope == [owner |-> "u1", group |-> "c1"]
HisfsScope == [owner |-> "u2", group |-> "c2"]

\* A call of Inode.node_path (fs/orm.py)
NodePathCall(s) ==
    LET np == FsNodePath(inodes, s, FsScope.owner, FsScope.group) IN
    /\ last' = Resolution("node_path", np.err, FsScope.group, s,
                          IF np.err = "ok" THEN np.nodes ELSE << >>, << >>)
    /\ UNCHANGED <<inodes, nextId, store, nextBlob, quotas, files, nextFile, asked, inflight>>

\* A call of Inode.from_path (fs/orm.py)
FromPathCall(s) ==
    LET fp == FsFromPath(inodes, s, FsScope.group) IN
    /\ last' = Resolution("from_path", fp.err, FsScope.group, s,
                          IF fp.err = "ok" THEN <<fp.node>> ELSE << >>, fp.carried)
    /\ UNCHANGED <<inodes, nextId, store, nextBlob, quotas, files, nextFile, asked, inflight>>

\* A call of Inode.by_path (hisfs/orm.py); it returns None for no nodes
ByPathCall(s) ==
    LET bp == HisfsByPath(inodes, s, HisfsScope.owner, HisfsScope.group) IN
    /\ last' = Resolution("by_path", bp.err, HisfsScope.group, s,
                          IF bp.err = "ok" /\ bp.node # NULL THEN <<bp.node>>
                          ELSE << >>, << >>)
    /\ UNCHANGED <<inodes, nextId, store, nextBlob, quotas, files, nextFile, asked, inflight>>

\* Inode.node_path(s)[-1].path (fs/orm.py): the path of the row a path
\* resolves to
FsPathCall(s) ==
    LET np == FsNodePath(inodes, s, FsScope.owner, FsScope.group)
        target == np.nodes[Len(np.nodes)]
    IN /\ last' = IF np.err # "ok"
                  THEN Resolution("fs.path", np.err, FsScope.group, s, << >>, << >>)
                  ELSE Resolution("fs.path", FsPath(inodes, target).err, FsScope.group,
                                  s, <<target>>, FsPath(inodes, target).path)
       /\ UNCHANGED <<inodes, nextId, store, nextBlob, quotas, files, nextFile, asked, inflight>>

\* Inode.by_path(s).path (hisfs/orm.py); None has no path
HisfsPathCall(s) ==
    LET bp == HisfsByPath(inodes, s, HisfsScope.owner, HisfsScope.group) IN
    /\ last' = IF bp.err # "ok"
               THEN Resolution("hisfs.path", bp.err, HisfsScope.group, s, << >>, << >>)
               ELSE IF bp.node = NULL
               THEN Resolution("hisfs.path", "AttributeError", HisfsScope.group, s,
                               << >>, << >>)
               ELSE Resolution("hisfs.path", HisfsPath(inodes, bp.node).err,
                               HisfsScope.group, s, <<bp.node>>,
                               HisfsPath(inodes, bp.node).path)
    /\ UNCHANGED <<inodes, nextId, store, nextBlob, quotas, files, nextFile, asked, inflight>>

\* The rows of the two scopes: in the fs scope a root row, "a" in it and,
\* when "a" is a directory, the file "b" in "a"; in the hisfs scope "a"
\* without parent and "b" in it.
ResolveRows(aIsFile) ==
    LET rows == <<Row(NULL, "", "u1", "c1", NULL, NULL),
                  Row(1, "a", "u1", "c1", NULL, IF aIsFile THEN 1 ELSE NULL),
                  Row(NULL, "a", "u2", "c2", NULL, IF aIsFile THEN 2 ELSE NULL),
                  Row(2, "b", "u1", "c1", NULL, 3),
                  Row(3, "b", "u2", "c2", NULL, 4)>>
    IN [i \in (IF aIsFile THEN 1..3 ELSE 1..5) |-> rows[i]]

ResolveInit ==
    /\ \E aIsFile \in BOOLEAN :
          /\ inodes = ResolveRows(aIsFile)
          /\ store = [b \in (IF aIsFile THEN 1..2 ELSE 3..4) |-> 6]
    /\ nextId = 6
    /\ nextBlob = 5
    /\ quotas = [c \in Customers |-> NULL]
    /\ files = << >>
    /\ nextFile = 1
    /\ last = NoOutcome
    /\ asked = NoOne
    /\ inflight = NoneInFlight

NodePathOf == \E s \in PathStrings : NodePathCall(s)

FromPathOf == \E s \in PathStrings : FromPathCall(s)

ByPathOf == \E s \in PathStrings : ByPathCall(s)

PathOfFs == \E s \in PathStrings : FsPathCall(s)

PathOfHisfs == \E s \in PathStrings : HisfsPathCall(s)

ResolveNext == NodePathOf \/ FromPathOf \/ ByPathOf \/ PathOfFs \/ PathOfHisfs

SpecResolve == ResolveInit /\ [][ResolveNext]_vars

\* ------------------------------------------- names (fs/orm.py, fs/wsgi.py)

\* The longest resource a create request names.
MaxResourceLen == 3

\* The resources a create request names: every component is at most one
\* character, the names the rows hold.
Resources ==
    {s \in UNION {[1..n -> PathChars] : n \in 0..MaxResourceLen} :
        \A k \in 1..Len(Split(s)) : Len(Split(s)[k]) <= 1}

\* The names a rename asks for: the empty one, the separator, plain ones.
NewNames == UNION {[1..n -> PathChars] : n \in 0..1}

\* str.rfind(PATHSEP) + 1: the position of the last separator, 0 if none
RFind(s) ==
    LET seps == {k \in 1..Len(s) : s[k] = PATHSEP} IN
    IF seps = {} THEN 0 ELSE CHOOSE k \in seps : \A j \in seps : j <= k

\* str.rstrip(PATHSEP)
RECURSIVE RStrip(_)
RStrip(s) ==
    IF s = << >> THEN s
    ELSE IF s[Len(s)] = PATHSEP THEN RStrip(SubSeq(s, 1, Len(s) - 1))
    ELSE s

\* os.path.dirname: the head up to the last separator, its trailing
\* separators stripped unless it consists of separators only
DirNameOf(s) ==
    LET head == SubSeq(s, 1, RFind(s)) IN
    IF head # << >> /\ RStrip(head) # << >> THEN RStrip(head) ELSE head

\* os.path.basename: what follows the last separator
BaseNameOf(s) == SubSeq(s, RFind(s) + 1, Len(s))

\* The setter of Inode.name (fs/orm.py): ValueError for the empty name and
\* for a name that holds the separator.
FsSetName(chars) ==
    IF chars = << >> THEN "ValueError"
    ELSE IF \E k \in 1..Len(chars) : chars[k] = PATHSEP THEN "ValueError"
    ELSE "ok"

\* The outcome of a request that names something: path is the resource or
\* the name asked for.
Naming(op, err, customer, target, chars, size) ==
    [Outcome(op, err, customer, target, FALSE, << >>, size) EXCEPT !.path = chars]

\* FileManager.post on the resource as the request spells it: the lookup of
\* the resource, the lookup of its dirname, the setter on its basename.
FsPostResource(account, s, data) ==
    LET owner == VerifiedOwner(account)
        group == VerifiedGroup(account)
        hit == FsNodePath(inodes, s, owner, group)
        par == FsNodePath(inodes, DirNameOf(s), owner, group)
        err == IF hit.err = "ok" THEN "FileExists"
               ELSE IF hit.err # "NoSuchNode" THEN hit.err
               ELSE IF par.err # "ok" THEN par.err
               ELSE IF FsSetName(BaseNameOf(s)) # "ok" THEN "InvalidFileName"
               ELSE "ok"
    IN IF err # "ok"
       THEN /\ last' = Naming("post", err, group,
                              IF hit.err = "ok" THEN hit.nodes[Len(hit.nodes)] ELSE NULL,
                              s, data)
            /\ UNCHANGED <<inodes, nextId, store, nextBlob, quotas, files, nextFile>>
       ELSE /\ nextId <= NumRoots + MaxInodes
            /\ data # NULL => nextBlob <= MaxBlobs
            /\ inodes' = With(inodes, nextId,
                              Row(par.nodes[Len(par.nodes)], AsName(BaseNameOf(s)),
                                  owner, group, NULL,
                                  IF data = NULL THEN NULL ELSE nextBlob))
            /\ nextId' = nextId + 1
            /\ store' = IF data = NULL THEN store ELSE StoreAdd(store, data)
            /\ nextBlob' = IF data = NULL THEN nextBlob ELSE nextBlob + 1
            /\ last' = Naming("post", "ok", group, nextId, s, data)
            /\ UNCHANGED <<quotas, files, nextFile>>

\* A rename: "inode.name = name", then save().  A ValueError of the setter
\* leaves the row as it is.
FsRename(i, chars) ==
    /\ i \in DOMAIN inodes
    /\ IF FsSetName(chars) # "ok"
       THEN /\ last' = Naming("rename", FsSetName(chars), inodes[i].group, i, chars, 0)
            /\ UNCHANGED inodes
       ELSE /\ last' = Naming("rename", "ok", inodes[i].group, i, chars, 0)
            /\ inodes' = With(inodes, i, [inodes[i] EXCEPT !.name = AsName(chars)])
    /\ UNCHANGED <<nextId, store, nextBlob, quotas, files, nextFile>>

PostResource ==
    /\ \E account \in Users, s \in Resources, data \in {NULL} \cup FsSizes :
           FsPostResource(account, s, data)
    /\ UNCHANGED <<asked, inflight>>

\* The rows below a root are the ones a client renames.
Rename ==
    /\ \E i \in DOMAIN inodes, chars \in NewNames :
           inodes[i].parent # NULL /\ FsRename(i, chars)
    /\ UNCHANGED <<asked, inflight>>

NameNext == PostResource \/ Rename \/ Put \/ Delete

SpecName == Init /\ [][NameNext]_vars

\* ------------------------------------ the hierarchy under all its writers

\* Create, replace, rename and remove of the path interface in the scope of
\* one account, the names a rename sets included, against a content store
\* that answers every call.
TreeAccount == "u1"

\* The names a rename asks for: one a sibling may bear, one with the
\* separator.
TreeNewNames == {<<"a">>, <<PATHSEP>>}

TreePost ==
    /\ \E path \in Paths, data \in {NULL} \cup FsSizes :
           FsPost(TreeAccount, path, data, TRUE)
    /\ UNCHANGED <<asked, inflight>>

TreePut ==
    /\ \E path \in Paths, size \in FsSizes :
           FsPut(TreeAccount, path, size, size, TRUE, TRUE)
    /\ UNCHANGED <<asked, inflight>>

TreeRename ==
    /\ \E i \in DOMAIN inodes, chars \in TreeNewNames :
           inodes[i].parent # NULL /\ FsRename(i, chars)
    /\ UNCHANGED <<asked, inflight>>

TreeDelete ==
    /\ \E path \in Paths, recursive \in BOOLEAN :
           FsDelete(TreeAccount, path, recursive, TRUE)
    /\ UNCHANGED <<asked, inflight>>

TreeNext == TreePost \/ TreePut \/ TreeRename \/ TreeDelete

SpecTree == Init /\ [][TreeNext]_vars

\* --------------------------------------- thumbnails (hisfs/thumbnails.py)

\* The largest width and height of an image and of a requested resolution.
MaxDim == 4

Dims == 1..MaxDim

\* round(n / d) of Python: to the nearest integer, a tie to the even one
RoundHalfEven(n, d) ==
    LET q == n \div d
        r == n % d
    IN IF 2 * r < d THEN q
       ELSE IF 2 * r > d THEN q + 1
       ELSE IF q % 2 = 0 THEN q ELSE q + 1

Min(a, b) == IF a <= b THEN a ELSE b

\* _get_new_resolution(original_resolution, desired_resolution): the factors
\* are max_x / current_x and max_y / current_y, compared as fractions.
GetNewResolution(original, desired) ==
    LET current_x == original[1]
        current_y == original[2]
        max_x == desired[1]
        max_y == desired[2]
    IN IF max_x >= current_x \/ max_y >= current_y
       THEN [err |-> "NoThumbnailRequired", resolution |-> << >>]
       ELSE IF max_x * current_y <= max_y * current_x
       THEN [err |-> "ok",
             resolution |-> <<Min(max_x, RoundHalfEven(current_x * max_x, current_x)),
                              Min(max_y, RoundHalfEven(current_y * max_x, current_x))>>]
       ELSE [err |-> "ok",
             resolution |-> <<Min(max_x, RoundHalfEven(current_x * max_y, current_y)),
                              Min(max_y, RoundHalfEven(current_y * max_y, current_y))>>]

\* try_thumbnail on an image of the resolution original, the request asking
\* for the resolution desired: path holds both, carried the new resolution.
TryThumbnail(original, desired) ==
    LET new == GetNewResolution(original, desired) IN
    /\ last' = [Outcome("thumbnail", new.err, "c0", NULL, FALSE, << >>, 0)
                   EXCEPT !.path = original \o desired, !.carried = new.resolution]
    /\ UNCHANGED <<inodes, nextId, store, nextBlob, quotas, files, nextFile, asked, inflight>>

ThumbNext ==
    \E original \in Dims \X Dims, desired \in Dims \X Dims :
        TryThumbnail(original, desired)

SpecThumb == FileInit /\ [][ThumbNext]_vars

\* ------------------------- content replacement, step by step (fs/wsgi.py)

\* The position of a worker that serves no request.
Idle == [pc |-> "idle", account |-> "none", name |-> << >>, target |-> NULL,
         old |-> NULL, new |-> NULL, size |-> 0, rename |-> FALSE]

\* The worker w moves to the position pos.
Moves(w, pos) == inflight' = [inflight EXCEPT ![w] = pos]

ReplaceWorkers == {"w1"}

\* FileManager.put up to the data setter: the lookup of the inode and the
\* setter's test "self.file is None and self.id is not None".  The inode the
\* worker holds is a copy of the row, with the blob the row had then.
PutLookup(w, account, path, size) ==
    LET owner == VerifiedOwner(account)
        group == VerifiedGroup(account)
        hit == ByPath(inodes, path, owner, group)
    IN /\ inflight[w].pc = "idle"
       /\ IF hit.err # "ok"
          THEN /\ last' = Outcome("put", hit.err, group, NULL, FALSE, << >>, size)
               /\ UNCHANGED inflight
          ELSE IF IsDir(inodes, hit.node)
          THEN /\ last' = Outcome("put", "NotAFile", group, hit.node, FALSE, << >>, size)
               /\ UNCHANGED inflight
          ELSE /\ Moves(w, [Idle EXCEPT !.pc = "add", !.account = account,
                                        !.target = hit.node,
                                        !.old = inodes[hit.node].file,
                                        !.size = size])
               /\ UNCHANGED last
       /\ UNCHANGED <<inodes, nextId, store, nextBlob, quotas, files, nextFile, asked>>

\* The data setter: "file_id = self.FILE_CLIENT.add(data)"; a FileError is
\* raised as WriteError.
PutAdd(w, addOk) ==
    /\ inflight[w].pc = "add"
    /\ IF ~addOk
       THEN /\ last' = Outcome("put", "WriteError", CustomerOf(inflight[w].account),
                               inflight[w].target, FALSE, << >>, inflight[w].size)
            /\ Moves(w, Idle)
            /\ UNCHANGED <<store, nextBlob>>
       ELSE /\ nextBlob <= MaxBlobs
            /\ store' = StoreAdd(store, inflight[w].size)
            /\ nextBlob' = nextBlob + 1
            /\ Moves(w, [inflight[w] EXCEPT !.pc = "delete", !.new = nextBlob])
            /\ UNCHANGED last
    /\ UNCHANGED <<inodes, nextId, quotas, files, nextFile, asked>>

\* The data setter: "with suppress(FileError): self.FILE_CLIENT.delete(
\* self.file)", then "self.file = file_id" on the worker's copy.
PutDeleteOld(w, delOk) ==
    /\ inflight[w].pc = "delete"
    /\ store' = IF delOk THEN StoreDelete(store, inflight[w].old) ELSE store
    /\ Moves(w, [inflight[w] EXCEPT !.pc = "save"])
    /\ UNCHANGED <<inodes, nextId, nextBlob, quotas, files, nextFile, last, asked>>

\* FileManager.put: "inode.save()".  saveOk: the database takes the update.
PutSave(w, saveOk) ==
    LET i == inflight[w].target IN
    /\ inflight[w].pc = "save"
    /\ IF saveOk /\ i \in DOMAIN inodes
       THEN /\ inodes' = With(inodes, i, [inodes[i] EXCEPT !.file = inflight[w].new])
            /\ last' = Outcome("put", "ok", CustomerOf(inflight[w].account), i,
                               FALSE, << >>, inflight[w].size)
       ELSE /\ last' = Outcome("put", "DatabaseError", CustomerOf(inflight[w].account),
                               i, FALSE, << >>, inflight[w].size)
            /\ UNCHANGED inodes
    /\ Moves(w, Idle)
    /\ UNCHANGED <<nextId, store, nextBlob, quotas, files, nextFile, asked>>

\* A root directory with the file "a" and the directory "b" in it.
ReplaceInit ==
    /\ inodes = <<Row(NULL, "", "u1", "c1", NULL, NULL),
                  Row(1, "a", "u1", "c1", NULL, 1),
                  Row(1, "b", "u1", "c1", NULL, NULL)>>
    /\ nextId = 4
    /\ store = <<6>>
    /\ nextBlob = 2
    /\ quotas = [c \in Customers |-> NULL]
    /\ files = << >>
    /\ nextFile = 1
    /\ last = NoOutcome
    /\ asked = NoOne
    /\ inflight = [w \in ReplaceWorkers |-> Idle]

Lookup ==
    \E w \in ReplaceWorkers, account \in Users, path \in Paths, size \in FsSizes :
        PutLookup(w, account, path, size)

Add == \E w \in ReplaceWorkers, addOk \in BOOLEAN : PutAdd(w, addOk)

DeleteOld == \E w \in ReplaceWorkers, delOk \in BOOLEAN : PutDeleteOld(w, delOk)

Save == \E w \in ReplaceWorkers, saveOk \in BOOLEAN : PutSave(w, saveOk)

\* FileManager.delete between two replacements, filedb answering or not.
DeleteOrFail ==
    /\ \A w \in ReplaceWorkers : inflight[w].pc = "idle"
    /\ \E account \in Users, path \in Paths, recursive \in BOOLEAN, delOk \in BOOLEAN :
           FsDelete(account, path, recursive, delOk)
    /\ UNCHANGED <<asked, inflight>>

ReplaceNext == Lookup \/ Add \/ DeleteOld \/ Save \/ DeleteOrFail

SpecReplace == ReplaceInit /\ [][ReplaceNext]_vars

\* ------------------------------ uploads by concurrent workers (hisfs/wsgi.py)

UploadWorkers == {"w1", "w2"}

\* Both workers serve the same customer.
UploadAccount == "u1"

\* post(name) up to File.add: "qalloc(len(data))".  Nothing is kept of the
\* check but that the request goes on.
UploadCheck(w, base, size, rename) ==
    LET customer == CustomerOf(UploadAccount) IN
    /\ inflight[w].pc = "idle"
    /\ IF AllocRefuses(files, store, customer, size)
       THEN /\ last' = FilePosted("QuotaExceeded", customer, NULL, size, base, rename)
            /\ UNCHANGED inflight
       ELSE /\ Moves(w, [Idle EXCEPT !.pc = "add", !.account = UploadAccount,
                                     !.name = <<base, 0>>, !.size = size,
                                     !.rename = rename])
            /\ UNCHANGED last
    /\ UNCHANGED <<inodes, nextId, store, nextBlob, quotas, files, nextFile, asked>>

\* post(name): "File.add(name, CUSTOMER.id, data, rename=rename)", the lookup
\* of the name and the bytes handed to the content store.
UploadAdd(w) ==
    LET req == inflight[w]
        customer == CustomerOf(req.account)
        add == FileAdd(files, req.name[1], 0, customer, req.rename)
    IN
    /\ req.pc = "add"
    /\ IF add.err # "ok"
       THEN /\ last' = FilePosted(add.err, customer, add.file, req.size, req.name[1],
                                  req.rename)
            /\ Moves(w, Idle)
            /\ UNCHANGED <<store, nextBlob>>
       ELSE /\ nextBlob <= MaxFiles    \* a row for every blob that is stored
            /\ store' = StoreAdd(store, req.size)
            /\ nextBlob' = nextBlob + 1
            /\ Moves(w, [req EXCEPT !.pc = "save", !.name = add.name, !.new = nextBlob])
            /\ UNCHANGED last
    /\ UNCHANGED <<inodes, nextId, quotas, files, nextFile, asked>>

\* A faulty save: the quota is asked again, and the row is not written when
\* the bytes no longer fit.
UploadSaveReserving(w) ==
    LET req == inflight[w]
        customer == CustomerOf(req.account)
    IN
    /\ req.pc = "save"
    /\ IF AllocRefuses(files, store, customer, req.size)
       THEN /\ last' = FilePosted("QuotaExceeded", customer, NULL, req.size,
                                  req.name[1], req.rename)
            /\ store' = StoreDelete(store, req.new)
            /\ UNCHANGED <<files, nextFile>>
       ELSE /\ files' = With(files, nextFile, FileRow(req.name, customer, req.new))
            /\ nextFile' = nextFile + 1
            /\ last' = FilePosted("ok", customer, nextFile, req.size, req.name[1],
                                  req.rename)
            /\ UNCHANGED store
    /\ Moves(w, Idle)
    /\ UNCHANGED <<inodes, nextId, nextBlob, quotas, asked>>

\* post(name): "file.save()", the insert of the row.
UploadSave(w) ==
    LET req == inflight[w]
        customer == CustomerOf(req.account)
    IN
    /\ req.pc = "save"
    /\ files' = With(files, nextFile, FileRow(req.name, customer, req.new))
    /\ nextFile' = nextFile + 1
    /\ last' = FilePosted("ok", customer, nextFile, req.size, req.name[1], req.rename)
    /\ Moves(w, Idle)
    /\ UNCHANGED <<inodes, nextId, store, nextBlob, quotas, asked>>

\* No File row yet, the customer with its quota row, both workers idle.
UploadInit ==
    /\ inodes = << >>
    /\ nextId = 1
    /\ store = << >>
    /\ nextBlob = 1
    /\ quotas = [c \in Customers |-> IF c = "c1" THEN QuotaRow ELSE NULL]
    /\ files = << >>
    /\ nextFile = 1
    /\ last = NoOutcome
    /\ asked = NoOne
    /\ inflight = [w \in UploadWorkers |-> Idle]

Checking ==
    \E w \in UploadWorkers, base \in BatchNames, size \in Sizes, rename \in BOOLEAN :
        UploadCheck(w, base, size, rename)

Adding == \E w \in UploadWorkers : UploadAdd(w)

Saving == \E w \in UploadWorkers : UploadSave(w)

UploadNext == Checking \/ Adding \/ Saving

SpecUpload == UploadInit /\ [][UploadNext]_vars

\* ------------------------------- creates by concurrent workers (fs/wsgi.py)

CreateWorkers == {"w1", "w2"}

\* Both workers serve the same account, and so the same scope.
CreateAccount == "u1"

\* FileManager.post up to the insert: the lookup of the path, which must end
\* in NoSuchNode, and the lookup of its dirname.
CreateCheck(w, path, data) ==
    LET owner == VerifiedOwner(CreateAccount)
        group == VerifiedGroup(CreateAccount)
        hit == ByPath(inodes, path, owner, group)
        par == ByPath(inodes, DirName(path), owner, group)
        err == IF hit.err = "ok" THEN "FileExists"
               ELSE IF hit.err # "NoSuchNode" THEN hit.err
               ELSE par.err
    IN
    /\ inflight[w].pc = "idle"
    /\ IF err # "ok"
       THEN /\ last' = Outcome("post", err, group, hit.node, FALSE, << >>, data)
            /\ UNCHANGED inflight
       ELSE /\ Moves(w, [Idle EXCEPT !.pc = "insert", !.account = CreateAccount,
                                     !.name = BaseName(path), !.target = par.node,
                                     !.size = data])
            /\ UNCHANGED last
    /\ UNCHANGED <<inodes, nextId, store, nextBlob, quotas, files, nextFile, asked>>

\* A faulty insert: the siblings are looked at again, and a taken name is
\* answered FileExists.
CreateInsertUnique(w) ==
    LET req == inflight[w]
        owner == VerifiedOwner(req.account)
        group == VerifiedGroup(req.account)
    IN
    /\ req.pc = "insert"
    /\ IF GetRel(inodes, req.name, req.target, owner, group) # {}
       THEN /\ last' = Outcome("post", "FileExists", group, NULL, FALSE, << >>, req.size)
            /\ UNCHANGED <<inodes, nextId, store, nextBlob>>
       ELSE /\ nextId <= NumRoots + MaxInodes
            /\ req.size # NULL => nextBlob <= MaxBlobs
            /\ inodes' = With(inodes, nextId,
                              Row(req.target, req.name, owner, group, NULL,
                                  IF req.size = NULL THEN NULL ELSE nextBlob))
            /\ nextId' = nextId + 1
            /\ store' = IF req.size = NULL THEN store ELSE StoreAdd(store, req.size)
            /\ nextBlob' = IF req.size = NULL THEN nextBlob ELSE nextBlob + 1
            /\ last' = Outcome("post", "ok", group, nextId, FALSE, << >>, req.size)
    /\ Moves(w, Idle)
    /\ UNCHANGED <<quotas, files, nextFile, asked>>

\* FileManager.post from "inode = Inode()" on: the row is built with the
\* parent and the name found before, the data stored, the row saved.
CreateInsert(w) ==
    LET req == inflight[w]
        owner == VerifiedOwner(req.account)
        group == VerifiedGroup(req.account)
    IN
    /\ req.pc = "insert"
    /\ nextId <= NumRoots + MaxInodes
    /\ req.size # NULL => nextBlob <= MaxBlobs
    /\ inodes' = With(inodes, nextId,
                      Row(req.target, req.name, owner, group, NULL,
                          IF req.size = NULL THEN NULL ELSE nextBlob))
    /\ nextId' = nextId + 1
    /\ store' = IF req.size = NULL THEN store ELSE StoreAdd(store, req.size)
    /\ nextBlob' = IF req.size = NULL THEN nextBlob ELSE nextBlob + 1
    /\ last' = Outcome("post", "ok", group, nextId, FALSE, << >>, req.size)
    /\ Moves(w, Idle)
    /\ UNCHANGED <<quotas, files, nextFile, asked>>

\* The root rows, both workers idle.
CreateInit ==
    /\ inodes = RootRows
    /\ nextId = NumRoots + 1
    /\ store = << >>
    /\ nextBlob = 1
    /\ quotas = [c \in Customers |-> NULL]
    /\ files = << >>
    /\ nextFile = 1
    /\ last = NoOutcome
    /\ asked = NoOne
    /\ inflight = [w \in CreateWorkers |-> Idle]

\* One worker creates directories and files, the other files.
Looking ==
    \E w \in CreateWorkers, path \in Paths, data \in {NULL} \cup FsSizes :
        /\ w = "w2" => data # NULL
        /\ CreateCheck(w, path, data)

Inserting == \E w \in CreateWorkers : CreateInsert(w)

CreateNext == Looking \/ Inserting

SpecCreate == CreateInit /\ [][CreateNext]_vars

\* ----------------------------------------------------- claims on removal

\* The rows below row i.
RECURSIVE Descendants(_, _)
Descendants(tab, i) ==
    LET kids == ChildrenOf(tab, i) IN
    kids \cup UNION {Descendants(tab, k) : k \in kids}

\* The request path of row i: the names from below its root down to i.
RECURSIVE PathTo(_, _)
PathTo(tab, i) ==
    IF tab[i].parent = NULL THEN << >>
    ELSE Append(PathTo(tab, tab[i].parent), tab[i].name)

RemoveOps == {"fsremove", "hisfsremove"}

\* This step is Inode.remove(recursive) on row i.
Removes(i, recursive) ==
    /\ i \in DOMAIN inodes
    /\ last'.op \in RemoveOps
    /\ last'.target = i
    /\ last'.rec = recursive

\* C1: Inode.remove(recursive=False) on a row that has a child raises
\* DirectoryNotEmpty, and the Inode table and the content store are after the
\* call what they were before it (both revisions of Inode).
C1_UnlinkNonEmptyRefused ==
    [][\A i \in DOMAIN inodes :
          (Removes(i, FALSE) /\ ChildrenOf(inodes, i) # {})
          => /\ last'.err = "DirectoryNotEmpty"
             /\ inodes' = inodes
             /\ store' = store]_vars

\* A directory with a child was unlinked, was refused and is still there
\* with its child.
C1_Witness ==
    /\ last.op \in RemoveOps
    /\ ~last.rec
    /\ last.err = "DirectoryNotEmpty"
    /\ last.target \in DOMAIN inodes
    /\ ~IsRoot(inodes, last.target)
    /\ ChildrenOf(inodes, last.target) # {}

\* What C2 asks of one recursive removal of row i: no error, every row of
\* the subtree deleted, each after its children, i last, and none of their
\* paths resolving afterwards.
RemovedSubtree(i) ==
    LET removed == last'.removed
        gone == {i} \cup Descendants(inodes, i)
    IN /\ last'.err = "ok"
       /\ {removed[k] : k \in 1..Len(removed)} = gone
       /\ Len(removed) = Cardinality(gone)
       /\ \A j, k \in 1..Len(removed) :
             inodes[removed[j]].parent = removed[k] => j < k
       /\ removed[Len(removed)] = i
       /\ DOMAIN inodes' = DOMAIN inodes \ gone
       /\ \A d \in gone :
             ByPath(inodes', PathTo(inodes, d), inodes[d].owner, inodes[d].group).err
                = "NoSuchNode"

\* C2: Inode.remove(recursive=True) on a directory that is not a root
\* completes without error, deletes every descendant before its parent and
\* the directory last, and the paths of all of them then fail with
\* NoSuchNode (both revisions of Inode, the content store answering).
C2_RecursiveRemove ==
    [][\A i \in DOMAIN inodes :
          (Removes(i, TRUE) /\ ~IsRoot(inodes, i) /\ IsDir(inodes, i))
          => RemovedSubtree(i)]_vars

\* The same of the revision in fs/orm.py alone.
C2_FsRecursiveRemove ==
    [][\A i \in DOMAIN inodes :
          (Removes(i, TRUE) /\ last'.op = "fsremove" /\ ~IsRoot(inodes, i)
              /\ IsDir(inodes, i))
          => RemovedSubtree(i)]_vars

\* C3: removing a row that is not a root and has no children, with either
\* value of recursive, raises nothing, and the row is gone afterwards.
C3_LeafRemoved ==
    [][\A i \in DOMAIN inodes, recursive \in BOOLEAN :
          (Removes(i, recursive) /\ ~IsRoot(inodes, i) /\ ChildrenOf(inodes, i) = {})
          => /\ last'.err = "ok"
             /\ i \notin DOMAIN inodes']_vars

\* The same of the revision in fs/orm.py alone.
C3_FsLeafRemoved ==
    [][\A i \in DOMAIN inodes, recursive \in BOOLEAN :
          (Removes(i, recursive) /\ last'.op = "fsremove" /\ ~IsRoot(inodes, i)
              /\ ChildrenOf(inodes, i) = {})
          => /\ last'.err = "ok"
             /\ i \notin DOMAIN inodes']_vars

\* C4: removing the root row of a scope raises RootDeletionError, whatever
\* its children and the recursive flag, and the root row is still there.
C4_RootNeverRemoved ==
    [][\A i \in DOMAIN inodes, recursive \in BOOLEAN :
          (Removes(i, recursive) /\ IsRoot(inodes, i))
          => /\ last'.err = "RootDeletionError"
             /\ i \in DOMAIN inodes']_vars

\* C7: a request that stores new bytes is granted the quota for them first:
\* when the customer's free space is less than the new bytes (the whole new
\* size, on replacement too), no blob is written and no row created or
\* changed.
C7_AllocBeforeWrite ==
    [][(/\ last'.op \in {"post", "put"}
        /\ last'.size > Free(inodes, store, last'.customer))
       => /\ store' = store
          /\ inodes' = inodes]_vars

\* -------------------------------------------------------- claims on quota

\* limit(tenant): the quota row when there is one, the configured default
\* otherwise.
LimitOf(customer) ==
    IF quotas[customer] = NULL THEN DefaultQuota ELSE quotas[customer]

\* The bytes of the File rows of the customer, counted row by row.
RECURSIVE BytesOf(_, _)
BytesOf(rows, customer) ==
    IF rows = {} THEN 0
    ELSE LET i == CHOOSE r \in rows : TRUE IN
         (IF files[i].group = customer /\ files[i].file # NULL
          THEN store[files[i].file] ELSE 0) + BytesOf(rows \ {i}, customer)

UsedBytes(customer) == BytesOf(DOMAIN files, customer)

\* C5: alloc raises QuotaExceeded exactly when the requested size is larger
\* than limit(tenant) - used(tenant) at the time of the call, the limit being
\* the quota row or, without one, the configured default; a request for
\* exactly the free space is granted.  (A refused or colliding upload leaves
\* the table as it was at the call; a stored one added its own bytes.)
C5_AllocIffOverFree ==
    LET free == LimitOf(last.customer) - UsedBytes(last.customer) IN
    /\ last.op = "alloc"
          => (last.err = "QuotaExceeded" <=> last.size > free)
    /\ (last.op = "filepost" /\ last.err # "ok")
          => (last.err = "QuotaExceeded" <=> last.size > free)
    /\ (last.op = "filepost" /\ last.err = "ok")
          => UsedBytes(last.customer) <= LimitOf(last.customer)

\* A customer without quota row, with bytes stored, asked for exactly the
\* free space and got it.
C5_Witness ==
    /\ last.op = "alloc"
    /\ last.err = "ok"
    /\ quotas[last.customer] = NULL
    /\ UsedBytes(last.customer) > 0
    /\ last.size = DefaultQuota - UsedBytes(last.customer)

\* C6: used(tenant) is the sum of the sizes of the tenant's rows that bear
\* content: an upload that is stored raises it by the bytes sent, a delete
\* lowers it by the size of the deleted file, and no request changes the
\* used space of another tenant.
C6_UsedFollowsContent ==
    [][\A c \in Customers :
          /\ Used(files, store, c) = UsedBytes(c)
          /\ (last'.op = "filepost" /\ last'.err = "ok")
                => Used(files, store, c)' =
                      Used(files, store, c) + (IF c = last'.customer THEN last'.size ELSE 0)
          /\ (last'.op = "filedelete" /\ last'.err = "ok")
                => Used(files, store, c)' =
                      Used(files, store, c)
                        - (IF c = files[last'.target].group
                           THEN store[files[last'.target].file] ELSE 0)
          /\ (last'.op \in {"alloc", "filepost", "filedelete"} /\ last'.err # "ok")
                => Used(files, store, c)' = Used(files, store, c)]_vars

\* The scenario under the 10 byte quota: an earlier file is deleted again,
\* and the 9 bytes that did not fit beside it are stored and are what is
\* used now.
C6_Witness ==
    /\ last.op = "filepost"
    /\ last.err = "ok"
    /\ last.size = 9
    /\ quotas[last.customer] = QuotaRow
    /\ Used(files, store, last.customer) = 9
    /\ DOMAIN files = {2}

\* ---------------------------------------------------- claims on permissions

\* The permission a method decides.
PermOf(method) ==
    CASE method \in {"_readable_by", "readable_by"} -> "read"
      [] method \in {"_writable_by", "writable_by"} -> "write"
      [] method \in {"_executable_by", "executable_by"} -> "execute"

\* The triads that apply to the asked principal on row i, the tenant of a row
\* being its owner's customer in fs/orm.py and its group in hisfs/orm.py.
AppliesTo(i, triad) ==
    CASE triad = "user" -> asked.account = inodes[i].owner
      [] triad = "group" ->
            asked.group = (IF last.op \in FsMethods
                           THEN CustomerOf(inodes[i].owner)
                           ELSE inodes[i].group)
      [] triad = "other" -> TRUE

BitSet(i, triad, perm) ==
    (inodes[i].mode \div Pow2(TriadShift[triad] + PermShift[perm])) % 2 = 1

\* C8: for a principal that is not root, each of the three permissions is
\* granted exactly when the bit of some applicable triad is set: the owner
\* triad applies to the owner, the group triad to a principal of the inode's
\* tenant, the other triad to everybody.
C8_AnyApplicableTriad ==
    (last.op \in FsMethods \cup HisfsMethods /\ ~IsRootAccount(asked.account))
    => (last.err = "granted"
        <=> \E triad \in {"user", "group", "other"} :
               AppliesTo(last.target, triad)
               /\ BitSet(last.target, triad, PermOf(last.op)))

\* The owner, whose own bit is clear, is granted through the group bit, the
\* other bit being clear too.
C8_Witness ==
    /\ last.op = "_readable_by"
    /\ last.err = "granted"
    /\ asked.account = inodes[last.target].owner
    /\ ~BitSet(last.target, "user", "read")
    /\ BitSet(last.target, "group", "read")
    /\ ~BitSet(last.target, "other", "read")

\* C9: a root principal is granted read, write and execute on every inode,
\* whatever its mode, owner and tenant.
C9_RootAlwaysGranted ==
    (last.op \in FsMethods \cup HisfsMethods /\ IsRootAccount(asked.account))
    => last.err = "granted"

\* The directories above row i.
Above(tab, i) == {Parents(tab, i)[k] : k \in 1..Len(Parents(tab, i))}

\* C10: when a directory above the target is not executable for the
\* principal, listing, reading and writing the target are rejected with
\* NotExecutable and change nothing, whatever the target's own mode grants;
\* the fs/orm.py checks, which answer instead of raising, deny.
C10_AncestorsDecideFirst ==
    [][LET target == last'.target
           shut == {p \in DOMAIN inodes :
                      ~HisfsExecutableBy(inodes, p, asked'.account, asked'.group)}
           fsShut == {p \in DOMAIN inodes :
                        ~Fs_ExecutableBy(inodes, p, asked'.account)}
       IN /\ (last'.op \in {"read", "list"} /\ Above(inodes, target) \cap shut # {})
                => /\ last'.err = "NotExecutable"
                   /\ inodes' = inodes
                   /\ store' = store
          /\ (/\ last'.op = "write"
              /\ IsDir(inodes, target)
              /\ (Above(inodes, target) \cup {target}) \cap shut # {})
                => /\ last'.err = "NotExecutable"
                   /\ inodes' = inodes
                   /\ store' = store
          /\ (last'.op \in FsChecks /\ Above(inodes, target) \cap fsShut # {})
                => last'.err = "denied"]_vars

\* C11: listing a directory that is not executable for the principal
\* discloses none of its children, even when the directory is readable for
\* the principal and every directory above it is executable.
C11_NoListingWithoutExecute ==
    (/\ last.op \in {"list", "dict_for"}
     /\ last.err = "ok"
     /\ IsDir(inodes, last.target)
     /\ IF last.op = "list"
        THEN ~HisfsExecutableBy(inodes, last.target, asked.account, asked.group)
        ELSE ~Fs_ExecutableBy(inodes, last.target, asked.account))
    => last.listed = << >>

\* ---------------------------------------------------- claims on resolution

\* What the path asked for names, walked by the names between its
\* separators from the scope's root (a row in the fs scope, none in the
\* hisfs scope): the rows met, whether the walk ended at the target
\* ("ok"), at a name the current row has no child of ("missing") or at a
\* file with names left ("file"), and the names walked up to there.
RECURSIVE NamedBy(_, _, _, _, _, _)
NamedBy(parent, names, owner, group, met, walked) ==
    IF names = << >> THEN [status |-> "ok", met |-> met, walked |-> walked]
    ELSE LET kids == {i \in DOMAIN inodes : /\ inodes[i].parent = parent
                                            /\ NameChars(inodes[i].name) = Head(names)
                                            /\ inodes[i].owner = owner
                                            /\ inodes[i].group = group}
             here == Append(walked, Head(names))
         IN IF kids = {} THEN [status |-> "missing", met |-> met, walked |-> here]
            ELSE LET kid == CHOOSE i \in kids : TRUE IN
                 IF inodes[kid].file # NULL /\ Tail(names) # << >>
                 THEN [status |-> "file", met |-> Append(met, kid), walked |-> here]
                 ELSE NamedBy(kid, Tail(names), owner, group, Append(met, kid), here)

\* The names between the separators of the path asked for.
NamesAsked == SelectSeq(Split(last.path), LAMBDA c : c # << >>)

InFsScope == last.op \in {"node_path", "from_path", "fs.path"}

\* The root row of the scope the last resolution ran in, NULL in the hisfs
\* scope.
ScopeRoot ==
    IF InFsScope
    THEN CHOOSE i \in DOMAIN inodes : /\ inodes[i].parent = NULL
                                      /\ inodes[i].owner = FsScope.owner
                                      /\ inodes[i].group = FsScope.group
    ELSE NULL

Named ==
    LET scope == IF InFsScope THEN FsScope ELSE HisfsScope IN
    NamedBy(ScopeRoot, NamesAsked,
            scope.owner, scope.group,
            IF InFsScope THEN <<ScopeRoot>> ELSE << >>, << >>)

\* The prefix that ends with the last name walked: "/a/b"
Prefix(walked) == Join(<< << >> >> \o walked)

\* The path asked for is written without redundant separators: the empty
\* path, "/", "a/b" or "/a/b".
PlainPath == last.path \in {<< >>, <<PATHSEP>>, Join(NamesAsked), Prefix(NamesAsked)}

\* C12: a path that names an existing node of the scope resolves to the
\* chain of rows from the scope's root to the target, each the child of the
\* one before; the empty path and "/" resolve to the root itself.
C12_ChainFromRoot ==
    (last.op \in {"node_path", "by_path"} /\ PlainPath /\ Named.status = "ok")
    => /\ last.err = "ok"
       /\ last.listed = Named.met

\* C13: a resolution that comes to a name the current row has no child of
\* fails with NoSuchNode, and the error carries the prefix walked so far.
C13_NoSuchNodeWithPrefix ==
    (/\ last.op \in {"node_path", "from_path", "by_path"}
     /\ PlainPath
     /\ Named.status = "missing")
    => /\ last.err = "NoSuchNode"
       /\ last.listed = << >>
       /\ last.carried = Prefix(Named.walked)

\* C14: a resolution that comes to a file while names remain fails with
\* NotADirectory at the prefix of the file.
C14_NotADirectoryAtPrefix ==
    (last.op \in {"node_path", "by_path"} /\ PlainPath /\ Named.status = "file")
    => /\ last.err = "NotADirectory"
       /\ last.carried = Prefix(Named.walked)

\* C15: the path computed from the row a path resolved to is that path
\* again, for a normalized absolute path; for every path that resolved it is
\* computed without error.
C15_PathRoundTrip ==
    (last.op \in {"fs.path", "hisfs.path"} /\ last.listed # << >>)
    => /\ last.err = "ok"
       /\ (last.path = Prefix(NamesAsked) /\ NamesAsked # << >>)
             => last.carried = last.path

\* The round trip of the revision in hisfs/orm.py alone.
C15_HisfsPathRoundTrip ==
    (last.op = "hisfs.path" /\ last.listed # << >>)
    => /\ last.err = "ok"
       /\ (last.path = Prefix(NamesAsked) /\ NamesAsked # << >>)
             => last.carried = last.path

\* -------------------------------------------------------- claims on names

\* The rows i and j are siblings of one scope.
SiblingsInScope(i, j) ==
    /\ i # j
    /\ inodes[i].parent = inodes[j].parent
    /\ inodes[i].owner = inodes[j].owner
    /\ inodes[i].group = inodes[j].group

SiblingsUnique ==
    \A i \in DOMAIN inodes : \A j \in DOMAIN inodes :
        SiblingsInScope(i, j) => inodes[i].name # inodes[j].name

\* C16: in every state that creates, renames, content replacements and
\* removals reach, no two rows with the same parent in the same scope have
\* the same name.
C16_SiblingNamesUnique == SiblingsUnique

\* C16, for what does keep the names apart: a content replacement, a removal
\* and a create whose resource does not start with the separator never make
\* two siblings share a name.
C16_UniqueButForRenameAndAbsolute ==
    [][(/\ SiblingsUnique
        /\ last'.op # "rename"
        /\ ~(last'.op = "post" /\ StartsWithSeps(last'.path, 1)))
       => SiblingsUnique']_vars

\* The name a create or a rename asks for: the basename of the resource, or
\* the new name.
NameAskedIn(l) == IF l.op = "rename" THEN l.path ELSE BaseNameOf(l.path)

ValidName(chars) ==
    chars # << >> /\ \A k \in 1..Len(chars) : chars[k] # PATHSEP

NamingOps == {"post", "rename"}

\* C18: a create or a rename with an empty name or a name that holds the
\* separator is rejected, with ValueError by the setter and with
\* InvalidFileName by the interface (a create names more than the root).
C18_InvalidNameRejected ==
    (/\ last.op \in NamingOps
     /\ ~ValidName(NameAskedIn(last))
     /\ last.op = "post" => NonEmpty(Split(last.path)) # << >>)
    => last.err = (IF last.op = "rename" THEN "ValueError" ELSE "InvalidFileName")

\* C18, for what the code does keep: such a create or rename fails and
\* leaves the table and the store as they were.
C18_InvalidNameChangesNothing ==
    [][(last'.op \in NamingOps /\ ~ValidName(NameAskedIn(last')))
       => /\ last'.err # "ok"
          /\ inodes' = inodes
          /\ store' = store]_vars

\* C18, the names persisted: every row below a root has a name that is not
\* empty and holds no separator.
C18_PersistedNamesValid ==
    \A i \in DOMAIN inodes :
        inodes[i].parent # NULL => ValidName(NameChars(inodes[i].name))

\* ------------------------------------------------ claims on the File names

\* The File rows of the customer that hold the name.
Taken(tab, name, customer) ==
    {i \in DOMAIN tab : tab[i].name = name /\ tab[i].group = customer}

\* The name a post(name) request sent, as the rows hold it.
Sent(l) == <<l.path[1], 0>>

\* A post(name) that got past the quota and found its name taken.
Collides ==
    /\ last'.op = "filepost"
    /\ last'.err # "QuotaExceeded"
    /\ Taken(files, Sent(last'), last'.customer) # {}

\* C17: a create under a taken name never overwrites or duplicates.  Without
\* the rename flag it fails with FileExists carrying the id of the row that
\* holds the name, and stores nothing; with the flag it adds a new row under
\* the first free suffixed name and leaves every other row as it was, so
\* both are found by their own names.
C17_TakenNameNeverOverwritten ==
    [][Collides =>
          IF ~last'.rec
          THEN /\ last'.err = "FileExists"
               /\ last'.target \in Taken(files, Sent(last'), last'.customer)
               /\ files' = files
               /\ store' = store
          ELSE /\ last'.err = "ok"
               /\ last'.target \notin DOMAIN files
               /\ DOMAIN files' = DOMAIN files \cup {last'.target}
               /\ \A i \in DOMAIN files : files'[i] = files[i]
               /\ DOMAIN store \subseteq DOMAIN store'
               /\ LET name == files'[last'.target].name IN
                  /\ name[1] = last'.path[1]
                  /\ name[2] >= 1
                  /\ \A j \in 0..(name[2] - 1) :
                        Taken(files, <<name[1], j>>, last'.customer) # {}
                  /\ Taken(files, name, last'.customer) = {}
                  /\ Taken(files', name, last'.customer) = {last'.target}]_vars

\* A create with the rename flag has added "x (1)" next to "x".
C17_Witness ==
    /\ last.op = "filepost"
    /\ last.rec
    /\ last.err = "ok"
    /\ last.target \in DOMAIN files
    /\ files[last.target].name = <<last.path[1], 1>>
    /\ Taken(files, Sent(last), last.customer) # {}
    /\ Taken(files, Sent(last), last.customer) # {last.target}

\* A create without the flag has met the name taken.
C17_FileExistsReached ==
    /\ last.op = "filepost"
    /\ ~last.rec
    /\ last.err = "FileExists"
    /\ last.target \in DOMAIN files

\* ------------------------------------------- claims on the batch create

Keys(dict) == {p[1] : p \in dict}

Elems(seq) == {seq[k] : k \in 1..Len(seq)}

\* The names a batch submitted, as the answer reports them.
Submitted(b) == {<<b.items[k].name, 0>> : k \in 1..Len(b.items)}

\* In how many of the four collections of the answer the name appears.
Reports(b, n) ==
    (IF n \in Keys(b.created) THEN 1 ELSE 0)
    + (IF n \in Keys(b.existing) THEN 1 ELSE 0)
    + (IF n \in Elems(b.too_large) THEN 1 ELSE 0)
    + (IF n \in Elems(b.quota_exceeded) THEN 1 ELSE 0)

\* The bytes the items before item k of the batch were created with.
RECURSIVE StoredBefore(_, _)
StoredBefore(b, k) ==
    IF k <= 1 THEN 0
    ELSE StoredBefore(b, k - 1)
         + (IF <<b.items[k - 1].name, 0>> \in Keys(b.created)
            THEN b.items[k - 1].size ELSE 0)

\* C19: in a batch create every item is processed on its own and every name
\* submitted is reported in exactly one of created, existing, too_large and
\* quota_exceeded; an item that fails neither stops the items after it nor
\* undoes the ones before it, and the quota is evaluated anew for each item,
\* the items created earlier in the batch counting against it.
C19_BatchItemsIndependent ==
    [][last'.op = "post_multi" =>
          LET b == last'.batch
              customer == last'.customer
              free == LimitOf(customer) - UsedBytes(customer)
          IN /\ \A n \in Submitted(b) : Reports(b, n) = 1
             /\ Keys(b.created) \cup Keys(b.existing) \cup Elems(b.too_large)
                   \cup Elems(b.quota_exceeded) = Submitted(b)
             /\ \A k \in 1..Len(b.items) :
                   LET item == b.items[k]
                       n == <<item.name, 0>>
                       fits == item.size <= free - StoredBefore(b, k)
                       taken == Taken(files, n, customer) # {}
                   IN /\ n \in Elems(b.too_large) <=> ~item.readable
                      /\ n \in Elems(b.quota_exceeded) <=> item.readable /\ ~fits
                      /\ n \in Keys(b.existing)
                            <=> item.readable /\ fits /\ taken /\ ~last'.rec
                      /\ n \in Keys(b.created)
                            <=> item.readable /\ fits /\ (~taken \/ last'.rec)
             /\ \A i \in DOMAIN files : i \in DOMAIN files' /\ files'[i] = files[i]
             /\ \A p \in b.created :
                   /\ p[2] \in DOMAIN files' \ DOMAIN files
                   /\ files'[p[2]].group = customer
                   /\ files'[p[2]].name[1] = p[1][1]
                   /\ \E k \in 1..Len(b.items) :
                         /\ b.items[k].name = p[1][1]
                         /\ store'[files'[p[2]].file] = b.items[k].size
             /\ \A p \in b.existing : p[2] \in Taken(files, p[1], customer)]_vars

\* A batch whose first item was created and whose second item exceeded the
\* quota only because of the first, and one whose first item failed and whose
\* second was created.
C19_Witness ==
    /\ last.op = "post_multi"
    /\ Len(last.batch.items) = 2
    /\ <<last.batch.items[1].name, 0>> \in Keys(last.batch.created)
    /\ <<last.batch.items[2].name, 0>> \in Elems(last.batch.quota_exceeded)
    /\ last.batch.items[2].size + UsedBytes(last.customer)
          - last.batch.items[1].size <= LimitOf(last.customer)

C19_LaterItemCreated ==
    /\ last.op = "post_multi"
    /\ Len(last.batch.items) = 2
    /\ <<last.batch.items[1].name, 0>> \notin Keys(last.batch.created)
    /\ <<last.batch.items[2].name, 0>> \in Keys(last.batch.created)

\* C20, as the code has it: the status of a batch create is the failure status
\* exactly when an item was too large or exceeded the quota; an item whose
\* name exists already is reported and leaves the status alone, so the
\* success status says that every item was created or existed.
C20_StatusReflectsRefusals ==
    last.op = "post_multi" =>
        /\ last.batch.status \in {200, 400}
        /\ last.batch.status = 400
              <=> (last.batch.too_large # << >> \/ last.batch.quota_exceeded # << >>)
        /\ last.batch.status = 200
              <=> Submitted(last.batch)
                    = Keys(last.batch.created) \cup Keys(last.batch.existing)

\* A batch with an item that existed already is answered with the success
\* status.
C20_Witness ==
    /\ last.op = "post_multi"
    /\ last.batch.existing # {}
    /\ last.batch.status = 200

\* C20: the status of a batch create is the success status exactly when every
\* item submitted was created, and a failure status when an item existed
\* already, was too large or exceeded the quota.
C20_StatusReflectsFailures ==
    last.op = "post_multi" =>
        (last.batch.status = 200
            <=> Submitted(last.batch) = Keys(last.batch.created))

\* ---------------------------------------------------- claims on thumbnails

\* C21: the computation signals that no thumbnail is needed when the
\* resolution asked for is at least the source in both dimensions, and for
\* every other source yields a resolution that exceeds the one asked for in
\* neither dimension.
C21_ThumbnailUnlessBothLarger ==
    last.op = "thumbnail" =>
        IF last.path[3] >= last.path[1] /\ last.path[4] >= last.path[2]
        THEN last.err = "NoThumbnailRequired"
        ELSE /\ last.err = "ok"
             /\ last.carried[1] <= last.path[3]
             /\ last.carried[2] <= last.path[4]

\* C21, for what the code does keep: a resolution it yields exceeds the one
\* asked for in neither dimension, and a request that is at least the source
\* in both dimensions is answered with NoThumbnailRequired.
C21_YieldedWithinBounds ==
    last.op = "thumbnail" =>
        /\ last.err = "ok" =>
              /\ last.carried[1] <= last.path[3]
              /\ last.carried[2] <= last.path[4]
        /\ (last.path[3] >= last.path[1] /\ last.path[4] >= last.path[2])
              => last.err = "NoThumbnailRequired"

\* ------------------------------------------------ claims on delete hooks

\* C22: on delete by id every hook configured is called, in the order of the
\* configuration and while the File row is still there, with the id of the
\* file; a hook that cannot be loaded or that raises is logged only, the
\* hooks after it are called and the file is deleted.
C22_HooksNeverBlockDelete ==
    [][(last'.op = "filedelete" /\ last'.err # "NoSuchFile") =>
          LET hooks == last'.batch.hooks
              calls == last'.batch.calls
          IN /\ last'.err = "ok"
             /\ Len(calls) = Len(hooks)
             /\ \A k \in 1..Len(calls) :
                   /\ calls[k].hook = k
                   /\ calls[k].ident = last'.target
                   /\ calls[k].present
                   /\ calls[k].raised = "ok"
                   /\ (calls[k].logged = "none") <=> (hooks[k] = "runs")
             /\ last'.target \in DOMAIN files
             /\ last'.target \notin DOMAIN files']_vars

\* A file was deleted although its first hook raised and its second could
\* not be loaded.
C22_Witness ==
    /\ last.op = "filedelete"
    /\ last.err = "ok"
    /\ last.batch.hooks = <<"raises", "unloadable">>
    /\ Len(last.batch.calls) = 2
    /\ last.target \notin DOMAIN files

\* ------------------------------------------- claims on content replacement

\* C23: during a content replacement the old blob is deleted only after the
\* row references the new one: in every state, the intermediate ones and the
\* ones after a failure included, the blob a row references exists in the
\* content store.
C23_ReferencedBlobExists ==
    \A i \in DOMAIN inodes :
        inodes[i].file # NULL => inodes[i].file \in DOMAIN store

\* C24: a failure of the content store while it deletes a blob is never
\* propagated and never blocks the operation on the row: a replacement ends
\* with the row referencing the new blob, a removal of a file with the row
\* removed.
C24_DeleteFailureNeverBlocks ==
    /\ (last.op \in {"put", "fsremove"}) => last.err # "FileError"
    /\ (last.op = "fsremove" /\ last.target # NULL /\ last.err # "DirectoryNotEmpty")
          => last.target \notin DOMAIN inodes

\* C24, for the replacement: whether the old blob could be deleted or not, a
\* replacement whose row update went through leaves the row with the new
\* blob, and that blob in the store.
C24_ReplaceSurvivesDeleteFailure ==
    [][\A w \in ReplaceWorkers :
          (inflight[w].pc = "save" /\ last'.op = "put" /\ last'.err = "ok")
          => /\ inodes'[last'.target].file = inflight[w].new
             /\ inflight[w].new \in DOMAIN store']_vars

\* ------------------------------------------------ claims on the hierarchy

\* The row a create names as parent, where the dirname of the path resolves.
ParentAsked(account, path) ==
    ByPath(inodes, DirName(path), VerifiedOwner(account), VerifiedGroup(account))

ParentsAreDirectories ==
    \A i \in DOMAIN inodes :
        inodes[i].parent # NULL
        => /\ inodes[i].parent \in DOMAIN inodes
           /\ IsDir(inodes, inodes[i].parent)

\* A create whose parent path resolves to a file is answered by the lookup
\* of the path, which FileManager.post passes on, with NotADirectory.
CreateUnderFileRejected ==
    \A path \in Paths \ {<< >>} :
        LET par == ParentAsked(TreeAccount, path) IN
        (par.err = "ok" /\ IsFile(inodes, par.node))
        => ByPath(inodes, path, VerifiedOwner(TreeAccount),
                  VerifiedGroup(TreeAccount)).err = "NotADirectory"

\* A create that succeeds puts its row below a directory; one that is
\* rejected changes nothing.
CreateBelowDirectory ==
    last'.op = "post"
    => IF last'.err = "ok"
       THEN IsDir(inodes, inodes'[last'.target].parent)
       ELSE UNCHANGED <<inodes, store>>

\* A replacement of the content of a directory is rejected with NotAFile
\* and changes nothing.
ReplaceOnDirectoryRejected ==
    (last'.op = "put" /\ last'.target # NULL /\ IsDir(inodes, last'.target))
    => (last'.err = "NotAFile" /\ UNCHANGED <<inodes, store>>)

C28_UsedWithinLimit ==
    \A c \in Customers : Used(files, store, c) <= LimitOf(c)

\* The quota row of 10 bytes, 9 of them used, and a conversion that stored
\* nothing because its page did not fit.
C28_Witness ==
    /\ last.op = "convert_pdf"
    /\ last.err = "QuotaExceeded"
    /\ quotas[last.customer] = QuotaRow
    /\ Used(files, store, last.customer) = 9

\* ---------------------------------------------------- claims on tenants

\* A request by id, of any of the three kinds.
RequestById(account, ident) ==
    \/ FileGet(account, ident)
    \/ FileDelete(account, ident, TenantHooks)
    \/ FileConvertPdf(account, ident, FALSE, << >>)
    \/ \E images \in TenantImages : FileConvertPdf(account, ident, TRUE, images)

\* The answer names no row and carries nothing, no hook was called and
\* nothing but the outcome changed.
AnsweredAsMissing ==
    /\ last'.err = "NoSuchFile"
    /\ last'.target = NULL
    /\ last'.carried = << >>
    /\ last'.removed = << >>
    /\ (last'.op = "filedelete" => last'.batch.calls = << >>)
    /\ UNCHANGED <<inodes, nextId, store, nextBlob, quotas, files, nextFile>>

\* C29: a get, delete or convert_pdf by id of a principal that is not root on
\* a file of another tenant is answered NoSuchFile as for a missing id, runs
\* no hook and changes nothing; in the path interface the scope of such a
\* principal is its own customer whatever group it names.
C29_TenantsIsolated ==
    [][/\ \A account \in FileAccounts \ {"r"}, ident \in DOMAIN files :
             (files[ident].group # CustomerOf(account) /\ RequestById(account, ident))
             => AnsweredAsMissing
       /\ (last'.op = "scope" /\ ~IsRootAccount(asked'.account))
             => last'.customer = CustomerOf(asked'.account)]_vars

\* The file of c2 is there and a delete by a principal of c1, with hooks
\* configured, was answered NoSuchFile.
C29_Witness ==
    /\ last.op = "filedelete"
    /\ last.err = "NoSuchFile"
    /\ last.customer = "c1"
    /\ last.batch.hooks # << >>
    /\ 1 \in DOMAIN files
    /\ files[1].group = "c2"

\* ------------------------------------------- claims on the ancestors' check

\* The first of the rows, nearest first, that the account may not execute by
\* its mode bits; NULL if there is none.
RECURSIVE FirstDenied(_, _)
FirstDenied(rows, account) ==
    IF rows = << >> THEN NULL
    ELSE IF ~Fs_ExecutableBy(inodes, Head(rows), account) THEN Head(rows)
    ELSE FirstDenied(Tail(rows), account)

\* C30: on a finite hierarchy without cycle the ancestors' check ends, having
\* asked each ancestor once: it answers False at the first ancestor that is
\* not executable and True once the root is passed.
C30_AncestorsWalked ==
    last.op \in ParentsChecks
    => last.err = (IF FirstDenied(Parents(inodes, last.target), asked.account) = NULL
                   THEN "True" ELSE "False")

\* C30, for the generator of hisfs/orm.py: the parents of a row are its
\* ancestors, each once, the nearest first and the root last.
C30_ParentsYieldEachOnce ==
    \A i \in DOMAIN inodes :
        LET ps == Parents(inodes, i) IN
        /\ \A j \in 1..Len(ps) : \A k \in 1..Len(ps) : ps[j] = ps[k] => j = k
        /\ \A k \in 1..Len(ps) :
              ps[k] = inodes[IF k = 1 THEN i ELSE ps[k - 1]].parent
        /\ IF ps = << >> THEN inodes[i].parent = NULL
           ELSE inodes[ps[Len(ps)]].parent = NULL

\* ------------------------------------------- claims on concurrent requests

\* C26: between the quota check and the write nothing is reserved.  A worker
\* whose check passed stores its row whatever the other worker stored in
\* between, the used space growing by its bytes; so with both checks passed
\* before either write, both writes are performed and used(tenant) exceeds
\* limit(tenant).
C26_NoReservation ==
    [][\A w \in UploadWorkers :
          (inflight[w].pc = "save" /\ inflight'[w].pc = "idle")
          => /\ last'.err = "ok"
             /\ last'.target \in DOMAIN files' \ DOMAIN files
             /\ Used(files', store', last'.customer) =
                   Used(files, store, last'.customer) + inflight[w].size]_vars

\* Both uploads are stored and the customer uses more than its quota.
C26_Witness ==
    /\ \A w \in UploadWorkers : inflight[w].pc = "idle"
    /\ Cardinality(DOMAIN files) = 2
    /\ Used(files, store, "c1") > LimitOf("c1")

\* C27: the uniqueness of names is a check followed by an act.  A worker
\* whose lookups found the name free inserts its row whatever the other
\* worker inserted in between; so with both lookups done before either
\* insert, two siblings of one scope bear the same name.
C27_CheckThenAct ==
    [][\A w \in CreateWorkers :
          (inflight[w].pc = "insert" /\ inflight'[w].pc = "idle")
          => /\ last'.err = "ok"
             /\ last'.target \in DOMAIN inodes' \ DOMAIN inodes
             /\ inodes'[last'.target].name = inflight[w].name
             /\ inodes'[last'.target].parent = inflight[w].target]_vars

\* Two rows with one parent, one scope and one name, both workers done.
C27_Witness ==
    /\ \A w \in CreateWorkers : inflight[w].pc = "idle"
    /\ \E i \in DOMAIN inodes : \E j \in DOMAIN inodes :
          /\ i # j
          /\ inodes[i].parent # NULL
          /\ inodes[i].parent = inodes[j].parent
          /\ inodes[i].name = inodes[j].name
          /\ inodes[i].owner = inodes[j].owner
          /\ inodes[i].group = inodes[j].group


====
